---- MODULE Spec2Model ----
(***************************************************************************)
(* Model of driver-organizer: the organize run (internal/cli), the Drive   *)
(* folder helpers and listing (internal/drive) and the retrying movers     *)
(* (internal/drive/mover.go).                                              *)
(*                                                                         *)
(* Strings are sequences of one-character strings, so that strings.Split,  *)
(* strings.TrimSpace, strings.ToLower and strings.Contains are computed.   *)
(***************************************************************************)
EXTENDS Integers, Sequences, FiniteSets, TLC

\* ------------------------------------------------------------------------
\* Bounds of the model
\* ------------------------------------------------------------------------
MaxPrompts == 2

\* ------------------------------------------------------------------------
\* Go string functions
\* ------------------------------------------------------------------------
IsSpace(c) == c \in {" ", "\n", "\t", "\r"}

RECURSIVE TrimLeft(_)
TrimLeft(s) ==
    IF s = <<>> THEN <<>>
    ELSE IF IsSpace(Head(s)) THEN TrimLeft(Tail(s)) ELSE s

RECURSIVE TrimRight(_)
TrimRight(s) ==
    IF s = <<>> THEN <<>>
    ELSE IF IsSpace(s[Len(s)]) THEN TrimRight(SubSeq(s, 1, Len(s) - 1)) ELSE s

TrimSpace(s) == TrimRight(TrimLeft(s))

LowerChar(c) ==
    CASE c = "M" -> "m"
      [] c = "D" -> "d"
      [] c = "R" -> "r"
      [] c = "N" -> "n"
      [] c = "C" -> "c"
      [] c = "P" -> "p"
      [] c = "Q" -> "q"
      [] c = "X" -> "x"
      [] OTHER -> c

ToLower(s) == [k \in 1..Len(s) |-> LowerChar(s[k])]

\* strings.Split(s, sep) for a one-character separator: always at least one
\* element, empty segments are kept.
RECURSIVE Split(_, _)
Split(s, sep) ==
    IF \A k \in 1..Len(s) : s[k] # sep THEN <<s>>
    ELSE LET p == CHOOSE k \in 1..Len(s) :
                     s[k] = sep /\ \A j \in 1..(k - 1) : s[j] # sep
         IN <<SubSeq(s, 1, p - 1)>> \o Split(SubSeq(s, p + 1, Len(s)), sep)

Contains(s, sub) ==
    \E k \in 0..(Len(s) - Len(sub)) : SubSeq(s, k + 1, k + Len(sub)) = sub

\* Lexicographic order on strings (Drive's OrderBy("name")), with ties
\* left to the item identifier.
Alphabet == <<" ", "/", "|", "F", "O", "b", "k", "r", "s", "t", "u", "v", "w", "x", "y", "z">>

CharRank(c) ==
    IF \E k \in 1..Len(Alphabet) : Alphabet[k] = c
    THEN CHOOSE k \in 1..Len(Alphabet) : Alphabet[k] = c
    ELSE 0

RECURSIVE StrLess(_, _)
StrLess(a, b) ==
    IF b = <<>> THEN FALSE
    ELSE IF a = <<>> THEN TRUE
    ELSE IF Head(a) = Head(b) THEN StrLess(Tail(a), Tail(b))
    ELSE CharRank(Head(a)) < CharRank(Head(b))

InSeq(x, s) == \E k \in 1..Len(s) : s[k] = x

RemoveAll(s, x) == SelectSeq(s, LAMBDA e : e # x)

\* ------------------------------------------------------------------------
\* The remote store (Google Drive) and FileInfo snapshots
\* ------------------------------------------------------------------------
Root == 0

FolderMime == <<"F">>
TextMime == <<"t">>

NilFile == [ID |-> -1, Name |-> <<>>, MimeType |-> <<>>, Parents |-> <<>>]

\* FileInfo built from a listed drive.File
Info(st, id) ==
    [ID |-> id, Name |-> st[id].name, MimeType |-> st[id].mime,
     Parents |-> st[id].parents]

IsFolder(f) == f.MimeType = FolderMime

FoldersOf(st) == {id \in DOMAIN st : st[id].mime = FolderMime}

\* Files.Update(id).AddParents(new).RemoveParents(old) [with a new name]
UpdateParents(st, id, newParent, oldParent) ==
    LET kept == RemoveAll(st[id].parents, oldParent)
    IN [st EXCEPT ![id].parents =
            IF InSeq(newParent, kept) THEN kept ELSE Append(kept, newParent)]

UpdateName(st, id, newName) == [st EXCEPT ![id].name = newName]

ItemLess(st, a, b) ==
    \/ StrLess(st[a].name, st[b].name)
    \/ st[a].name = st[b].name /\ a < b

RECURSIVE SortIds(_, _)
SortIds(st, S) ==
    IF S = {} THEN <<>>
    ELSE LET m == CHOOSE a \in S : \A b \in S \ {a} : ItemLess(st, a, b)
         IN <<m>> \o SortIds(st, S \ {m})

\* listFilesInFolder, successful case: every item whose parents contain the
\* folder, ordered by name.
ChildrenOf(st, folderID) ==
    LET ids == SortIds(st, {id \in DOMAIN st : InSeq(folderID, st[id].parents)})
    IN [k \in 1..Len(ids) |-> Info(st, ids[k])]

\* ------------------------------------------------------------------------
\* Folder helpers.  A call threads a record a = [st, nid, n, err, folder,
\* issued]: the store, the next identifier the store hands out, the number
\* of remote calls made so far, whether a call failed, the folder found or
\* created last, and the Files.Create calls issued.  failCall is the number
\* of the remote call that fails (0: none fails).
\* ------------------------------------------------------------------------
StartCall(st, nid) ==
    [st |-> st, nid |-> nid, n |-> 0, err |-> FALSE, folder |-> NilFile,
     issued |-> <<>>]

CreateCall(id, name, parentID, ok) ==
    [op |-> "create", id |-> id, name |-> name, newParent |-> parentID,
     oldParent |-> -1, ok |-> ok]

\* A slip: the folder is looked up under the root, not under parentID
FindFolderByNameInRoot(st, name, parentID) ==
    LET m == {id \in DOMAIN st :
                 /\ st[id].name = name
                 /\ InSeq(Root, st[id].parents)
                 /\ st[id].mime = FolderMime}
    IN IF m = {} THEN NilFile
       ELSE Info(st, CHOOSE id \in m : \A o \in m : id <= o)

\* FindFolderByName: a folder of that exact name under the parent, or nil
FindFolderByName(st, name, parentID) ==
    LET m == {id \in DOMAIN st :
                 /\ st[id].name = name
                 /\ InSeq(parentID, st[id].parents)
                 /\ st[id].mime = FolderMime}
    IN IF m = {} THEN NilFile
       ELSE Info(st, CHOOSE id \in m : \A o \in m : id <= o)

\* CreateFolder: a new folder whose only parent is parentID
CreateFolder(a, name, parentID) ==
    LET st2 == a.st @@ (a.nid :> [name |-> name, mime |-> FolderMime,
                                   parents |-> <<parentID>>])
    IN [a EXCEPT !.st = st2, !.nid = a.nid + 1, !.n = a.n + 1,
                 !.folder = Info(st2, a.nid),
                 !.issued = Append(a.issued,
                                   CreateCall(a.nid, name, parentID, TRUE))]

FindOrCreateFolder(a, name, parentID, failCall) ==
    IF failCall = a.n + 1
    THEN [a EXCEPT !.n = a.n + 1, !.err = TRUE, !.folder = NilFile]
    ELSE LET existing == FindFolderByName(a.st, name, parentID)
             b == [a EXCEPT !.n = a.n + 1]
         IN IF existing # NilFile
            THEN [b EXCEPT !.folder = existing]
            ELSE IF failCall = b.n + 1
                 THEN [b EXCEPT !.n = b.n + 1, !.err = TRUE, !.folder = NilFile,
                                !.issued = Append(b.issued,
                                    CreateCall(-1, name, parentID, FALSE))]
                 ELSE CreateFolder(b, name, parentID)

RECURSIVE NestedLoop(_, _, _, _, _)
NestedLoop(a, parts, currentParent, lastFolder, failCall) ==
    IF parts = <<>> THEN [a EXCEPT !.folder = lastFolder]
    ELSE LET part == TrimSpace(Head(parts))
         IN IF part = <<>>
            THEN NestedLoop(a, Tail(parts), currentParent, lastFolder, failCall)
            ELSE LET b == FindOrCreateFolder(a, part, currentParent, failCall)
                 IN IF b.err THEN b
                    ELSE NestedLoop(b, Tail(parts), b.folder.ID, b.folder,
                                    failCall)

\* FindOrCreateNestedFolder(path, rootParentID): the last folder of the path,
\* nil (and no error) when the path has no non-blank segment.
FindOrCreateNestedFolder(st, nid, path, rootParentID, failCall) ==
    NestedLoop(StartCall(st, nid), Split(path, "/"), rootParentID, NilFile,
               failCall)

\* ------------------------------------------------------------------------
\* Recursive listing.  bad is the set of folders whose listing fails.
\* ------------------------------------------------------------------------
MaxDepth == 20

RECURSIVE listAllFilesRecursiveWithDepth(_, _, _, _)
RECURSIVE ExpandFiles(_, _, _, _)

\* A slip: the depth ceiling tested with >=
listAllFilesRecursiveWithDepthOffByOne(st, folderID, depth, bad) ==
    IF depth >= MaxDepth THEN [err |-> TRUE, files |-> <<>>, listed |-> <<>>]
    ELSE IF folderID \in bad
         THEN [err |-> TRUE, files |-> <<>>,
               listed |-> <<[id |-> folderID, depth |-> depth]>>]
         ELSE LET e == ExpandFiles(st, ChildrenOf(st, folderID), depth, bad)
              IN [err |-> FALSE, files |-> e.files,
                  listed |-> <<[id |-> folderID, depth |-> depth]>> \o e.listed]

\* The result holds, besides the error and the files, the calls of
\* listFilesInFolder made (folder and depth), in order.
listAllFilesRecursiveWithDepth(st, folderID, depth, bad) ==
    IF depth > MaxDepth THEN [err |-> TRUE, files |-> <<>>, listed |-> <<>>]
    ELSE IF folderID \in bad
         THEN [err |-> TRUE, files |-> <<>>,
               listed |-> <<[id |-> folderID, depth |-> depth]>>]
         ELSE LET e == ExpandFiles(st, ChildrenOf(st, folderID), depth, bad)
              IN [err |-> FALSE, files |-> e.files,
                  listed |-> <<[id |-> folderID, depth |-> depth]>> \o e.listed]

\* A slip: an error in a subfolder ends the loop
ExpandFilesStopsAtError(st, files, depth, bad) ==
    IF files = <<>> THEN [files |-> <<>>, listed |-> <<>>]
    ELSE LET f == Head(files)
             rest == ExpandFiles(st, Tail(files), depth, bad)
         IN IF IsFolder(f)
            THEN LET sub == listAllFilesRecursiveWithDepth(st, f.ID, depth + 1, bad)
                 IN IF sub.err
                    THEN [files |-> <<>>, listed |-> sub.listed]
                    ELSE [files |-> sub.files \o rest.files,
                          listed |-> sub.listed \o rest.listed]
            ELSE [files |-> <<f>> \o rest.files, listed |-> rest.listed]

\* The loop over the listed items: a subfolder whose listing fails is
\* skipped, the loop goes on
ExpandFiles(st, files, depth, bad) ==
    IF files = <<>> THEN [files |-> <<>>, listed |-> <<>>]
    ELSE LET f == Head(files)
             rest == ExpandFiles(st, Tail(files), depth, bad)
         IN IF IsFolder(f)
            THEN LET sub == listAllFilesRecursiveWithDepth(st, f.ID, depth + 1, bad)
                 IN IF sub.err
                    THEN [files |-> rest.files,
                          listed |-> sub.listed \o rest.listed]
                    ELSE [files |-> sub.files \o rest.files,
                          listed |-> sub.listed \o rest.listed]
            ELSE [files |-> <<f>> \o rest.files, listed |-> rest.listed]

ListAllFilesRecursive(st, folderID, bad) ==
    listAllFilesRecursiveWithDepth(st, folderID, 0, bad)

\* ------------------------------------------------------------------------
\* Classification cache and classifier
\* ------------------------------------------------------------------------
NilSuggestion == [Nil |-> TRUE, SuggestedFolder |-> <<>>, SuggestedName |-> <<>>]

Sug(folder, name) ==
    [Nil |-> FALSE, SuggestedFolder |-> folder, SuggestedName |-> name]

CacheKey(name, mimeType) == name \o <<"|">> \o mimeType

\* A slip: the lookup never finds an entry
CacheGetMisses(c, key) == NilSuggestion

CacheGet(c, key) == IF key \in DOMAIN c THEN c[key] ELSE NilSuggestion

\* A slip: an entry already there is kept
CacheSetKeepsFirst(c, key, suggestion) ==
    [k \in DOMAIN c \cup {key} |-> IF k \in DOMAIN c THEN c[k] ELSE suggestion]

CacheSet(c, key, suggestion) ==
    [k \in DOMAIN c \cup {key} |-> IF k = key THEN suggestion ELSE c[k]]

Outros == <<"O", "u", "t", "r", "o", "s">>

\* ClassifySingle / ClassifyWithDescription on the collaborator's answer
\* resp = [err, suggestions]: the first suggestion, or the "Outros" default
\* when the answer holds none.
ClassifyResult(resp) ==
    IF resp.err THEN [err |-> TRUE, sug |-> NilSuggestion]
    ELSE IF Len(resp.suggestions) = 0
         THEN [err |-> FALSE, sug |-> Sug(Outros, <<>>)]
         ELSE [err |-> FALSE, sug |-> resp.suggestions[1]]

\* ------------------------------------------------------------------------
\* The decision switch of runOrganize.  Each case gives
\*   next: "execute" (leave the prompt loop and execute the target),
\*         "prompt" (ask again), "nextFile" (continue fileLoop),
\*         "return" (leave runOrganize);
\*   the target, the suggestion afterwards, whether the cache is set, and
\*   the increment of skipped.
\* ------------------------------------------------------------------------
\* A slip: the fallback to the original name is forgotten
AcceptNameNoFallback(suggestion, f) == suggestion.SuggestedName

AcceptName(suggestion, f) ==
    IF suggestion.SuggestedName # <<>> /\ suggestion.SuggestedName # f.Name
    THEN suggestion.SuggestedName
    ELSE f.Name

Decision(next, folder, name, suggestion, setCache, skip, reply) ==
    [next |-> next, targetFolder |-> folder, targetName |-> name,
     suggestion |-> suggestion, setCache |-> setCache, skip |-> skip,
     reply |-> reply]

\* Slips of the cases below
CaseDescreverNoCache(suggestion, f, rawReply, resp) ==
    LET description == TrimSpace(rawReply)
        r == ClassifyResult(resp)
    IN IF description = <<>> \/ r.err
       THEN Decision("prompt", <<>>, <<>>, suggestion, FALSE, 0, description)
       ELSE Decision("prompt", <<>>, <<>>, r.sug, FALSE, 0, description)

CaseCriarKeepsSuggested(suggestion, f, rawReply) ==
    LET customName == TrimSpace(rawReply)
    IN IF customName = <<>>
       THEN Decision("prompt", <<>>, <<>>, suggestion, FALSE, 1, customName)
       ELSE Decision("execute", suggestion.SuggestedFolder,
                     AcceptName(suggestion, f), suggestion, FALSE, 0, customName)

CaseQuitAsSkip(suggestion) ==
    Decision("nextFile", <<>>, <<>>, suggestion, FALSE, 1, <<>>)

CaseDefaultAsksAgain(suggestion) ==
    Decision("prompt", <<>>, <<>>, suggestion, FALSE, 1, <<>>)

\* A slip: "p" executes the suggestion
CasePularMoves(suggestion) ==
    Decision("execute", suggestion.SuggestedFolder, suggestion.SuggestedName,
             suggestion, FALSE, 0, <<>>)

CaseMover(suggestion, f) ==
    Decision("execute", suggestion.SuggestedFolder, AcceptName(suggestion, f),
             suggestion, FALSE, 0, <<>>)

\* A slip: the result of a failed re-classification is stored
CaseDescreverStoresFailure(suggestion, f, rawReply, resp) ==
    LET description == TrimSpace(rawReply)
        r == ClassifyResult(resp)
    IN IF description = <<>>
       THEN Decision("prompt", <<>>, <<>>, suggestion, FALSE, 0, description)
       ELSE Decision("prompt", <<>>, <<>>, r.sug, TRUE, 0, description)

CaseDescrever(suggestion, f, rawReply, resp) ==
    LET description == TrimSpace(rawReply)
        r == ClassifyResult(resp)
    IN IF description = <<>>
       THEN Decision("prompt", <<>>, <<>>, suggestion, FALSE, 0, description)
       ELSE IF r.err
            THEN Decision("prompt", <<>>, <<>>, suggestion, FALSE, 0, description)
            ELSE Decision("prompt", <<>>, <<>>, r.sug, TRUE, 0, description)

CaseRenomearPasta(suggestion, f, rawReply) ==
    LET newFolder == TrimSpace(rawReply)
    IN Decision("execute",
                IF newFolder = <<>> THEN suggestion.SuggestedFolder ELSE newFolder,
                AcceptName(suggestion, f), suggestion, FALSE, 0, newFolder)

\* A slip: an empty reply is taken as the new name
CaseNomearNoDefault(suggestion, f, rawReply) ==
    Decision("execute", suggestion.SuggestedFolder, TrimSpace(rawReply),
             suggestion, FALSE, 0, TrimSpace(rawReply))

CaseNomear(suggestion, f, rawReply) ==
    LET newName == TrimSpace(rawReply)
        defaultName == AcceptName(suggestion, f)
    IN Decision("execute", suggestion.SuggestedFolder,
                IF newName = <<>> THEN defaultName ELSE newName,
                suggestion, FALSE, 0, newName)

CaseCriar(suggestion, f, rawReply) ==
    LET customName == TrimSpace(rawReply)
    IN IF customName = <<>>
       THEN Decision("prompt", <<>>, <<>>, suggestion, FALSE, 1, customName)
       ELSE Decision("execute", customName, AcceptName(suggestion, f),
                     suggestion, FALSE, 0, customName)

CasePular(suggestion) ==
    Decision("nextFile", <<>>, <<>>, suggestion, FALSE, 1, <<>>)

CaseQuit(suggestion) ==
    Decision("return", <<>>, <<>>, suggestion, FALSE, 0, <<>>)

CaseDefault(suggestion) ==
    Decision("nextFile", <<>>, <<>>, suggestion, FALSE, 1, <<>>)

NormalizeInput(raw) == TrimSpace(ToLower(raw))

Switch(input, suggestion, f, rawReply, resp) ==
    CASE input = <<"m">> \/ input = <<>> -> CaseMover(suggestion, f)
      [] input = <<"d">> -> CaseDescrever(suggestion, f, rawReply, resp)
      [] input = <<"r">> -> CaseRenomearPasta(suggestion, f, rawReply)
      [] input = <<"n">> -> CaseNomear(suggestion, f, rawReply)
      [] input = <<"c">> -> CaseCriar(suggestion, f, rawReply)
      [] input = <<"p">> -> CasePular(suggestion)
      [] input = <<"q">> -> CaseQuit(suggestion)
      [] OTHER -> CaseDefault(suggestion)

\* The inputs that read a second line
ReadsReply(input) == input \in {<<"d">>, <<"r">>, <<"n">>, <<"c">>}

\* Partition of the root listing: everything except a folder named like the
\* first segment of the backup path.
BackupRootName(path) == Split(path, "/")[1]

FilesToBackup(files, folders, path) ==
    SelectSeq(files, LAMBDA f : ~(f.Name = BackupRootName(path) /\ IsFolder(f)))
    \o SelectSeq(folders, LAMBDA f : f.Name # BackupRootName(path))

\* oldParent of a snapshot: its first listed parent, else the default
OldParent(f, default) == IF Len(f.Parents) > 0 THEN f.Parents[1] ELSE default

\* The hint list after a successful move to targetFolder
AddHint(names, targetFolder) ==
    IF InSeq(targetFolder, names) THEN names ELSE Append(names, targetFolder)

\* ------------------------------------------------------------------------
\* State of one organize run
\* ------------------------------------------------------------------------
VARIABLES
    store,               \* remote store: id -> [name, mime, parents]
    nextId,              \* identifier of the next item the store creates
    store0,              \* the store when the run started
    cfgBackupFolder,     \* cfg.BackupFolder
    dryRun,              \* cfg.DryRun
    resume,              \* --resume
    cancelled,           \* ctx.Err() # nil
    pc,                  \* position in runOrganize
    files, folders,      \* the root listing, split
    backupFolder,        \* result of FindOrCreateNestedFolder(cfg.BackupFolder)
    filesToBackup, bk,   \* backup batch and its loop index
    existingFolderNames, \* the folder hints
    cache,               \* classifier.Cache items
    filesToOrganize, i,  \* work queue and the index of fileLoop
    suggestion, targetFolder, targetName, destFolder,
    organized, skipped,
    calls,               \* mutating remote calls issued so far, in order
    nprompts,            \* prompts answered for the current file
    last,                \* the prompt just answered (file index, normalized
                         \* input, trimmed reply, the suggestion shown, the
                         \* collaborator's answer to a description), until the
                         \* step that follows it
    cls,                 \* the call of the classifier the last step made
                         \* (file, kind, cache key, folder hints passed,
                         \* success), until the step that follows it
    nsingle,             \* per cache key, the ClassifySingle calls that
                         \* succeeded so far
    created,             \* the target paths (with the file's index) whose
                         \* resolution created a folder
    confirmed,           \* the user action that ended the prompt loop of the
                         \* current file with a target to execute
    skipped0,            \* skipped when the current file was started
    redescribed          \* the cache keys whose entry was stored by a
                         \* re-classification with a description ("d")

mvars == <<store, nextId, store0, cfgBackupFolder, dryRun, resume, cancelled, pc,
          files, folders, backupFolder, filesToBackup, bk, existingFolderNames,
          cache, filesToOrganize, i, suggestion, targetFolder, targetName,
          destFolder, organized, skipped, calls, nprompts, last, cls,
          nsingle, created, confirmed, skipped0, redescribed>>

\* State of one call of the retry executor (MoveFile, RenameFile,
\* MoveAndRenameFile): backoff.Retry over an ExponentialBackOff
VARIABLES
    rpc,                 \* "idle", "call", "backoff", "wait", "done"
    rfunc,               \* the function called
    rctxDone,            \* the call's context is cancelled
    attempts,            \* invocations of the operation so far
    transients,          \* invocations that failed with a retryable error
    waits,               \* backoff waits that ran to their end
    now,                 \* time spent waiting since b.Reset(), in ticks
    currentInterval,     \* b.currentInterval, in ticks
    timer,               \* the wait in progress, in ticks
    rerr,                \* the error the operation returned last
    rresult              \* "none", "ok", "error", "cancelled"

rvars == <<rpc, rfunc, rctxDone, attempts, transients, waits, now,
           currentInterval, timer, rerr, rresult>>

\* State of one call of ListAllFilesRecursive on a folder tree
VARIABLES
    wpc,                 \* "idle", "start", "done"
    wstore,              \* the remote store the call lists
    wbad,                \* the folders whose listFilesInFolder fails
    wresult              \* what the call returned

wvars == <<wpc, wstore, wbad, wresult>>

\* State of two consecutive calls of FindOrCreateNestedFolder
VARIABLES
    fpc,                 \* "idle", "start", "first", "second"
    fstore,              \* the remote store before the first call
    fpath, fparent,      \* the arguments path and rootParentID
    ffirst, fsecond      \* what the two calls returned

fvars == <<fpc, fstore, fpath, fparent, ffirst, fsecond>>

\* State of a classifier.Cache used by several goroutines
VARIABLES
    kitems,              \* c.items
    kmu,                 \* c.mu: a writer holds it, number of readers holding it
    kg,                  \* per goroutine: position in Get or Set, arguments,
                         \* and the value its Get read
    khist,               \* the writes made to c.items, in order
    kcalled,             \* the (key, suggestion) pairs Set was called with
    kops                 \* calls of Get and Set started so far

kvars == <<kitems, kmu, kg, khist, kcalled, kops>>

\* State of one batch of moves: the backup loop of runOrganize or
\* MoveFilesToFolder
VARIABLES
    bpc,                 \* "idle", "loop", "done" (returned), "cancelled"
                         \* (returned the cancellation error)
    bfunc,               \* "backupLoop" or "MoveFilesToFolder"
    bstore,              \* the remote store
    bfiles,              \* the items to move (FileInfo snapshots)
    bdest,               \* backupFolder.ID / destFolderID
    bi,                  \* index of the item the loop is at
    bmoved,              \* MoveFilesToFolder: moved
    berrors,             \* MoveFilesToFolder: errors (the item of each)
    bcalls,              \* the MoveFile calls made, in order
    bctxDone             \* the context is cancelled

bvars == <<bpc, bfunc, bstore, bfiles, bdest, bi, bmoved, berrors, bcalls,
           bctxDone>>

\* State of one construction of a request with supplementary text
VARIABLES
    tpc,                 \* "idle", "build", "built"
    tfunc,               \* "buildContentPrompt" or "buildDescriptionPrompt"
    tpayload,            \* content / userDescription, a sequence of bytes
    tblock               \* the text placed between the "---" lines

tvars == <<tpc, tfunc, tpayload, tblock>>

cvars == <<wvars, fvars, kvars, bvars, tvars>>

vars == <<mvars, rvars, cvars>>

\* ------------------------------------------------------------------------
\* Inputs of the model
\* ------------------------------------------------------------------------
MaxFailCall == 2

Item(name, mime, parents) == [name |-> name, mime |-> mime, parents |-> parents]

Universe ==
    (1 :> Item(<<"x">>, TextMime, <<Root>>)) @@
    (2 :> Item(<<"x">>, TextMime, <<Root>>)) @@
    (3 :> Item(<<"b">>, FolderMime, <<Root>>)) @@
    (4 :> Item(<<"y">>, TextMime, <<3>>)) @@
    (5 :> Item(<<"w">>, FolderMime, <<Root>>))

FirstNewId == 1 + Cardinality(DOMAIN Universe)

StoreOf(S) == [id \in S |-> Universe[id]]

BackupPaths ==
    {<<"b">>, <<"b", "/", "s">>, <<"/", "b">>, <<" ", "b">>, <<" ">>}

\* The runs explored: every backup path with each one-file store, and the
\* default path with a store of two files of the same name and type and
\* with a store holding a file at the root and one in the backup folder.
InitScenarios ==
    ({StoreOf({1, 3}), StoreOf({1, 5}), StoreOf({3, 4})} \X BackupPaths)
    \cup {<<StoreOf({1, 2, 3}), <<"b">> >>, <<StoreOf({1, 3, 4}), <<"b">> >>}

RawInputs ==
    {<<"m">>, <<>>, <<"M", "\n">>, <<"d">>, <<"r">>, <<"n">>, <<"c">>, <<"p">>,
     <<"q">>, <<"x">>, <<" ", "P", "\n">>, <<"m", "m">>}

RawReplies == {<<>>, <<" ", "\n">>, <<" ", "v", "\n">>}

AIResponses ==
    {[err |-> TRUE, suggestions |-> <<>>],
     [err |-> FALSE, suggestions |-> <<>>],
     [err |-> FALSE,
      suggestions |-> <<Sug(<<"w", "/", "r">>, <<"z">>), Sug(<<"w">>, <<>>)>>],
     [err |-> FALSE, suggestions |-> <<Sug(<<>>, <<"x">>)>>]}

NoAnswer == [err |-> TRUE, suggestions |-> <<>>]

\* A remote call made with a cancelled context fails.
CallOk == IF cancelled THEN {FALSE} ELSE {TRUE, FALSE}
FailCalls == IF cancelled THEN {1} ELSE 0..MaxFailCall
Answers == IF cancelled THEN {r \in AIResponses : r.err} ELSE AIResponses

Tag(issued, stage) ==
    [k \in 1..Len(issued) |->
        [op |-> issued[k].op, id |-> issued[k].id, name |-> issued[k].name,
         newParent |-> issued[k].newParent, oldParent |-> issued[k].oldParent,
         ok |-> issued[k].ok, stage |-> stage]]

MoveCall(op, id, name, newParent, oldParent, ok, stage) ==
    [op |-> op, id |-> id, name |-> name, newParent |-> newParent,
     oldParent |-> oldParent, ok |-> ok, stage |-> stage]

NoCall ==
    [idx |-> 0, id |-> -1, kind |-> "none", key |-> <<>>, hints |-> <<>>,
     ok |-> FALSE]

ClassifierCall(idx, f, kind, hints, ok) ==
    [idx |-> idx, id |-> f.ID, kind |-> kind,
     key |-> CacheKey(f.Name, f.MimeType), hints |-> hints, ok |-> ok]

NoConfirm == [idx |-> 0, id |-> -1, input |-> <<>>, reply |-> <<>>]

Count(n, key) == IF key \in DOMAIN n THEN n[key] ELSE 0

CountUp(n, key) ==
    [k \in DOMAIN n \cup {key} |-> IF k = key THEN Count(n, key) + 1 ELSE n[k]]

HistoryIdle ==
    /\ cls = NoCall
    /\ nsingle = <<>>
    /\ created = <<>>
    /\ confirmed = NoConfirm
    /\ skipped0 = 0
    /\ redescribed = {}

NoPrompt ==
    [idx |-> 0, input |-> <<>>, reply |-> <<>>, sug |-> NilSuggestion,
     answer |-> NoAnswer]

WalkIdle ==
    /\ wpc = "idle"
    /\ wstore = <<>>
    /\ wbad = {}
    /\ wresult = <<>>

FoldersIdle ==
    /\ fpc = "idle"
    /\ fstore = <<>>
    /\ fpath = <<>>
    /\ fparent = Root
    /\ ffirst = <<>>
    /\ fsecond = <<>>

CacheIdle ==
    /\ kitems = <<>>
    /\ kmu = [writer |-> FALSE, readers |-> 0]
    /\ kg = <<>>
    /\ khist = <<>>
    /\ kcalled = {}
    /\ kops = 0

BatchIdle ==
    /\ bpc = "idle"
    /\ bfunc = "none"
    /\ bstore = <<>>
    /\ bfiles = <<>>
    /\ bdest = -1
    /\ bi = 0
    /\ bmoved = 0
    /\ berrors = <<>>
    /\ bcalls = <<>>
    /\ bctxDone = FALSE

PromptIdle ==
    /\ tpc = "idle"
    /\ tfunc = "none"
    /\ tpayload = <<>>
    /\ tblock = <<>>

ComponentsIdle ==
    WalkIdle /\ FoldersIdle /\ CacheIdle /\ BatchIdle /\ PromptIdle

RetryIdle ==
    /\ rpc = "idle"
    /\ rfunc = "none"
    /\ rctxDone = FALSE
    /\ attempts = 0
    /\ transients = 0
    /\ waits = 0
    /\ now = 0
    /\ currentInterval = 0
    /\ timer = 0
    /\ rerr = "nil"
    /\ rresult = "none"

Init ==
    /\ RetryIdle
    /\ ComponentsIdle
    /\ \E sc \in InitScenarios :
         /\ store = sc[1]
         /\ cfgBackupFolder = sc[2]
    /\ nextId = FirstNewId
    /\ store0 = store
    /\ dryRun \in BOOLEAN
    /\ resume \in BOOLEAN
    /\ cancelled = FALSE
    /\ pc = "start"
    /\ files = <<>>
    /\ folders = <<>>
    /\ backupFolder = NilFile
    /\ filesToBackup = <<>>
    /\ bk = 1
    /\ existingFolderNames = <<>>
    /\ cache = <<>>
    /\ filesToOrganize = <<>>
    /\ i = 1
    /\ suggestion = NilSuggestion
    /\ targetFolder = <<>>
    /\ targetName = <<>>
    /\ destFolder = NilFile
    /\ organized = 0
    /\ skipped = 0
    /\ calls = <<>>
    /\ nprompts = 0
    /\ last = NoPrompt
    /\ HistoryIdle

\* ------------------------------------------------------------------------
\* Steps of runOrganize
\* ------------------------------------------------------------------------
Terminal == {"retError", "retNothing", "retDone", "retQuit", "retCancelled", "panic"}

\* ETAPA 2: drive.ListAllFiles and the split into files and folders
ListRoot ==
    /\ pc = "start"
    /\ \E ok \in CallOk :
        IF ~ok
        THEN /\ pc' = "retError"
             /\ UNCHANGED <<files, folders>>
        ELSE /\ files' = SelectSeq(ChildrenOf(store, Root), LAMBDA f : ~IsFolder(f))
             /\ folders' = SelectSeq(ChildrenOf(store, Root), IsFolder)
             /\ pc' = "mkbackup"
    /\ UNCHANGED <<rvars, cvars>>
    /\ UNCHANGED <<cls, nsingle, created, confirmed, skipped0, redescribed>>
    /\ UNCHANGED <<store, nextId, store0, cfgBackupFolder, dryRun, resume,
                   cancelled, backupFolder, filesToBackup, bk,
                   existingFolderNames, cache, filesToOrganize, i, suggestion,
                   targetFolder, targetName, destFolder, organized, skipped,
                   calls, nprompts, last>>

\* ETAPA 3: FindOrCreateNestedFolder(cfg.BackupFolder) and the filter
CreateBackupFolder ==
    /\ pc = "mkbackup"
    /\ \E failCall \in FailCalls :
        LET a == FindOrCreateNestedFolder(store, nextId, cfgBackupFolder, Root,
                                          failCall)
        IN /\ store' = a.st
           /\ nextId' = a.nid
           /\ calls' = calls \o Tag(a.issued, "backup")
           /\ IF a.err
              THEN /\ pc' = "retError"
                   /\ UNCHANGED <<backupFolder, filesToBackup>>
              ELSE /\ backupFolder' = a.folder
                   /\ filesToBackup' = FilesToBackup(files, folders, cfgBackupFolder)
                   /\ pc' = "branch"
    /\ UNCHANGED <<rvars, cvars>>
    /\ UNCHANGED <<cls, nsingle, created, confirmed, skipped0, redescribed>>
    /\ UNCHANGED <<store0, cfgBackupFolder, dryRun, resume, cancelled, files,
                   folders, bk, existingFolderNames, cache, filesToOrganize, i,
                   suggestion, targetFolder, targetName, destFolder, organized,
                   skipped, nprompts, last>>

\* The folders whose listing may fail in one recursive listing
BadSets ==
    IF cancelled THEN {{id \in DOMAIN store : store[id].mime = FolderMime}}
    ELSE {{}} \cup {{id} : id \in {d \in DOMAIN store : store[d].mime = FolderMime}}

\* resume, or nothing new at the root: the work queue is the recursive
\* listing of the backup folder
UseBackupListing ==
    IF backupFolder = NilFile
    THEN /\ pc' = "panic"
         /\ UNCHANGED filesToBackup
    ELSE \E bad \in BadSets :
            LET r == ListAllFilesRecursive(store, backupFolder.ID, bad)
            IN IF r.err
               THEN /\ pc' = "retError"
                    /\ UNCHANGED filesToBackup
               ELSE IF Len(r.files) = 0
                    THEN /\ pc' = "retNothing"
                         /\ UNCHANGED filesToBackup
                    ELSE /\ filesToBackup' = r.files
                         /\ pc' = "classifier"

\* A slip: the resume flag is not consulted
BranchIgnoresResume ==
    /\ pc = "branch"
    /\ IF Len(filesToBackup) = 0
       THEN UseBackupListing
       ELSE /\ pc' = IF dryRun THEN "classifier" ELSE "backup"
            /\ UNCHANGED filesToBackup
    /\ bk' = 1
    /\ UNCHANGED <<rvars, cvars>>
    /\ UNCHANGED <<cls, nsingle, created, confirmed, skipped0, redescribed>>
    /\ UNCHANGED <<store, nextId, store0, cfgBackupFolder, dryRun, resume,
                   cancelled, files, folders, backupFolder,
                   existingFolderNames, cache, filesToOrganize, i, suggestion,
                   targetFolder, targetName, destFolder, organized, skipped,
                   calls, nprompts, last>>

Branch ==
    /\ pc = "branch"
    /\ IF resume \/ Len(filesToBackup) = 0
       THEN UseBackupListing
       ELSE /\ pc' = IF dryRun THEN "classifier" ELSE "backup"
            /\ UNCHANGED filesToBackup
    /\ bk' = 1
    /\ UNCHANGED <<rvars, cvars>>
    /\ UNCHANGED <<cls, nsingle, created, confirmed, skipped0, redescribed>>
    /\ UNCHANGED <<store, nextId, store0, cfgBackupFolder, dryRun, resume,
                   cancelled, files, folders, backupFolder,
                   existingFolderNames, cache, filesToOrganize, i, suggestion,
                   targetFolder, targetName, destFolder, organized, skipped,
                   calls, nprompts, last>>

\* One iteration of the backup loop: drive.MoveFile(f.ID, backupFolder.ID, oldParent)
BackupMove ==
    /\ pc = "backup"
    /\ LET f == filesToBackup[bk]
       IN IF cancelled
          THEN /\ pc' = "retError"
               /\ UNCHANGED <<store, calls, bk>>
          ELSE IF backupFolder = NilFile
          THEN /\ pc' = "panic"
               /\ UNCHANGED <<store, calls, bk>>
          ELSE \E ok \in CallOk :
                /\ calls' = Append(calls,
                       MoveCall("move", f.ID, f.Name, backupFolder.ID,
                                OldParent(f, Root), ok, "backup"))
                /\ store' = IF ok
                            THEN UpdateParents(store, f.ID, backupFolder.ID,
                                               OldParent(f, Root))
                            ELSE store
                /\ bk' = bk + 1
                /\ pc' = IF bk = Len(filesToBackup) THEN "classifier" ELSE "backup"
    /\ UNCHANGED <<rvars, cvars>>
    /\ UNCHANGED <<cls, nsingle, created, confirmed, skipped0, redescribed>>
    /\ UNCHANGED <<nextId, store0, cfgBackupFolder, dryRun, resume, cancelled,
                   files, folders, backupFolder, filesToBackup,
                   existingFolderNames, cache, filesToOrganize, i, suggestion,
                   targetFolder, targetName, destFolder, organized, skipped,
                   nprompts, last>>

\* A slip: the folders of the backup set stay in the work queue
InitClassifierKeepsFolders ==
    /\ pc = "classifier"
    /\ \E clsOk \in BOOLEAN, listOk \in CallOk :
        IF ~clsOk
        THEN /\ pc' = "retError"
             /\ UNCHANGED <<existingFolderNames, filesToOrganize>>
        ELSE /\ existingFolderNames' =
                    IF listOk
                    THEN LET fs == SelectSeq(ChildrenOf(store, Root), IsFolder)
                         IN [k \in 1..Len(fs) |-> fs[k].Name]
                    ELSE <<>>
             /\ filesToOrganize' = filesToBackup
             /\ pc' = IF filesToOrganize' = <<>> THEN "retNothing" ELSE "loop"
    /\ i' = 1
    /\ UNCHANGED <<rvars, cvars>>
    /\ UNCHANGED <<cls, nsingle, created, confirmed, skipped0, redescribed>>
    /\ UNCHANGED <<store, nextId, store0, cfgBackupFolder, dryRun, resume,
                   cancelled, files, folders, backupFolder, filesToBackup, bk,
                   cache, suggestion, targetFolder, targetName, destFolder,
                   organized, skipped, calls, nprompts, last>>

\* ETAPA 4: NewClassifier, ListFolders("root"), the work queue
InitClassifier ==
    /\ pc = "classifier"
    /\ \E clsOk \in BOOLEAN, listOk \in CallOk :
        IF ~clsOk
        THEN /\ pc' = "retError"
             /\ UNCHANGED <<existingFolderNames, filesToOrganize>>
        ELSE /\ existingFolderNames' =
                    IF listOk
                    THEN LET fs == SelectSeq(ChildrenOf(store, Root), IsFolder)
                         IN [k \in 1..Len(fs) |-> fs[k].Name]
                    ELSE <<>>
             /\ filesToOrganize' = SelectSeq(filesToBackup, LAMBDA f : ~IsFolder(f))
             /\ pc' = IF filesToOrganize' = <<>> THEN "retNothing" ELSE "loop"
    /\ i' = 1
    /\ UNCHANGED <<rvars, cvars>>
    /\ UNCHANGED <<cls, nsingle, created, confirmed, skipped0, redescribed>>
    /\ UNCHANGED <<store, nextId, store0, cfgBackupFolder, dryRun, resume,
                   cancelled, files, folders, backupFolder, filesToBackup, bk,
                   cache, suggestion, targetFolder, targetName, destFolder,
                   organized, skipped, calls, nprompts, last>>

\* Head of fileLoop: exhaustion, the cancellation check, cache lookup and
\* ClassifySingle
FileLoop ==
    /\ pc = "loop"
    /\ IF i > Len(filesToOrganize)
       THEN /\ pc' = "retDone"
            /\ UNCHANGED <<cache, suggestion, skipped, i, cls, nsingle>>
       ELSE IF cancelled
       THEN /\ pc' = "retCancelled"
            /\ UNCHANGED <<cache, suggestion, skipped, i, cls, nsingle>>
       ELSE LET f == filesToOrganize[i]
                cacheKey == CacheKey(f.Name, f.MimeType)
                cached == CacheGet(cache, cacheKey)
            IN IF cached # NilSuggestion
               THEN /\ suggestion' = cached
                    /\ pc' = "prompt"
                    /\ UNCHANGED <<cache, skipped, i, cls, nsingle>>
               ELSE \E resp \in Answers :
                       LET r == ClassifyResult(resp)
                       IN /\ cls' = ClassifierCall(i, f, "single",
                                                   existingFolderNames, ~r.err)
                          /\ IF r.err
                             THEN /\ skipped' = skipped + 1
                                  /\ i' = i + 1
                                  /\ pc' = "loop"
                                  /\ UNCHANGED <<cache, suggestion, nsingle>>
                             ELSE /\ cache' = CacheSet(cache, cacheKey, r.sug)
                                  /\ nsingle' = CountUp(nsingle, cacheKey)
                                  /\ suggestion' = r.sug
                                  /\ pc' = "prompt"
                                  /\ UNCHANGED <<skipped, i>>
    /\ nprompts' = 0
    /\ last' = NoPrompt
    /\ confirmed' = NoConfirm
    /\ skipped0' = skipped
    /\ UNCHANGED <<created, redescribed>>
    /\ UNCHANGED <<rvars, cvars>>
    /\ UNCHANGED <<store, nextId, store0, cfgBackupFolder, dryRun, resume,
                   cancelled, files, folders, backupFolder, filesToBackup, bk,
                   existingFolderNames, filesToOrganize, targetFolder,
                   targetName, destFolder, organized, calls>>

\* One pass of the prompt loop: read the action (and the reply the action
\* asks for) and run the switch
Prompt ==
    /\ pc = "prompt"
    /\ \E raw \in RawInputs :
       \E rawReply \in IF ReadsReply(NormalizeInput(raw)) THEN RawReplies ELSE {<<>>} :
       \E resp \in IF NormalizeInput(raw) = <<"d">> THEN Answers ELSE {NoAnswer} :
        LET f == filesToOrganize[i]
            input == NormalizeInput(raw)
            d == Switch(input, suggestion, f, rawReply, resp)
        IN /\ d.next = "prompt" => nprompts + 1 < MaxPrompts
           /\ suggestion' = d.suggestion
           /\ cache' = IF d.setCache
                       THEN CacheSet(cache, CacheKey(f.Name, f.MimeType), d.suggestion)
                       ELSE cache
           /\ skipped' = skipped + d.skip
           /\ targetFolder' = d.targetFolder
           /\ targetName' = d.targetName
           /\ last' = [idx |-> i, input |-> input, reply |-> d.reply,
                       sug |-> suggestion,
                       answer |-> IF input = <<"d">> /\ d.reply # <<>>
                                  THEN resp ELSE NoAnswer]
           /\ pc' = CASE d.next = "execute" -> "resolve"
                      [] d.next = "prompt" -> "prompt"
                      [] d.next = "nextFile" -> "loop"
                      [] d.next = "return" -> "retQuit"
           /\ i' = IF d.next = "nextFile" THEN i + 1 ELSE i
           /\ cls' = IF input = <<"d">> /\ d.reply # <<>>
                     THEN ClassifierCall(i, f, "description",
                                         existingFolderNames,
                                         ~ClassifyResult(resp).err)
                     ELSE NoCall
           /\ confirmed' = IF d.next = "execute"
                           THEN [idx |-> i, id |-> f.ID, input |-> input,
                                 reply |-> d.reply]
                           ELSE confirmed
           /\ redescribed' = IF d.setCache
                              THEN redescribed \cup {CacheKey(f.Name, f.MimeType)}
                              ELSE redescribed
    /\ nprompts' = nprompts + 1
    /\ UNCHANGED <<nsingle, created, skipped0>>
    /\ UNCHANGED <<rvars, cvars>>
    /\ UNCHANGED <<store, nextId, store0, cfgBackupFolder, dryRun, resume,
                   cancelled, files, folders, backupFolder, filesToBackup, bk,
                   existingFolderNames, filesToOrganize, destFolder, organized,
                   calls>>

\* drive.FindOrCreateNestedFolder(targetFolder, "root") and the old parent
ResolveTarget ==
    /\ pc = "resolve"
    /\ \E failCall \in FailCalls :
        LET a == FindOrCreateNestedFolder(store, nextId, targetFolder, Root,
                                          failCall)
        IN /\ store' = a.st
           /\ nextId' = a.nid
           /\ calls' = calls \o Tag(a.issued, "organize")
           /\ destFolder' = a.folder
           /\ created' = IF ~a.err /\ \E k \in 1..Len(a.issued) : a.issued[k].ok
                         THEN Append(created, [idx |-> i, path |-> targetFolder])
                         ELSE created
           /\ IF a.err
              THEN /\ skipped' = skipped + 1
                   /\ i' = i + 1
                   /\ pc' = "loop"
              ELSE /\ pc' = IF backupFolder = NilFile \/ a.folder = NilFile
                            THEN "panic" ELSE "move"
                   /\ UNCHANGED <<skipped, i>>
    /\ last' = NoPrompt
    /\ cls' = NoCall
    /\ UNCHANGED <<nsingle, confirmed, skipped0, redescribed>>
    /\ UNCHANGED <<rvars, cvars>>
    /\ UNCHANGED <<store0, cfgBackupFolder, dryRun, resume, cancelled, files,
                   folders, backupFolder, filesToBackup, bk,
                   existingFolderNames, cache, filesToOrganize, suggestion,
                   targetFolder, targetName, organized, nprompts>>

\* drive.MoveAndRenameFile or drive.MoveFile, the hint list and the counters
\* A slip: a failed move counted as organized
MoveTargetCountsFailure ==
    /\ pc = "move"
    /\ LET f == filesToOrganize[i]
           oldParent == OldParent(f, backupFolder.ID)
       IN \E ok \in CallOk :
            /\ calls' = Append(calls,
                   MoveCall(IF targetName # f.Name THEN "moverename" ELSE "move",
                            f.ID, targetName, destFolder.ID, oldParent, ok,
                            "organize"))
            /\ IF ok
               THEN /\ store' = UpdateName(
                                    UpdateParents(store, f.ID, destFolder.ID, oldParent),
                                    f.ID, targetName)
                    /\ existingFolderNames' = AddHint(existingFolderNames, targetFolder)
                    /\ organized' = organized + 1
                    /\ UNCHANGED skipped
               ELSE /\ organized' = organized + 1
                    /\ UNCHANGED <<store, existingFolderNames, skipped>>
    /\ i' = i + 1
    /\ pc' = "loop"
    /\ cls' = NoCall
    /\ UNCHANGED <<nsingle, created, confirmed, skipped0, redescribed>>
    /\ UNCHANGED <<rvars, cvars>>
    /\ UNCHANGED <<nextId, store0, cfgBackupFolder, dryRun, resume, cancelled,
                   files, folders, backupFolder, filesToBackup, bk, cache,
                   filesToOrganize, suggestion, targetFolder, targetName,
                   destFolder, nprompts, last>>

MoveTarget ==
    /\ pc = "move"
    /\ LET f == filesToOrganize[i]
           oldParent == OldParent(f, backupFolder.ID)
       IN \E ok \in CallOk :
            /\ calls' = Append(calls,
                   MoveCall(IF targetName # f.Name THEN "moverename" ELSE "move",
                            f.ID, targetName, destFolder.ID, oldParent, ok,
                            "organize"))
            /\ IF ok
               THEN /\ store' = UpdateName(
                                    UpdateParents(store, f.ID, destFolder.ID, oldParent),
                                    f.ID, targetName)
                    /\ existingFolderNames' = AddHint(existingFolderNames, targetFolder)
                    /\ organized' = organized + 1
                    /\ UNCHANGED skipped
               ELSE /\ skipped' = skipped + 1
                    /\ UNCHANGED <<store, existingFolderNames, organized>>
    /\ i' = i + 1
    /\ pc' = "loop"
    /\ cls' = NoCall
    /\ UNCHANGED <<nsingle, created, confirmed, skipped0, redescribed>>
    /\ UNCHANGED <<rvars, cvars>>
    /\ UNCHANGED <<nextId, store0, cfgBackupFolder, dryRun, resume, cancelled,
                   files, folders, backupFolder, filesToBackup, bk, cache,
                   filesToOrganize, suggestion, targetFolder, targetName,
                   destFolder, nprompts, last>>

\* The signal goroutine: SIGINT/SIGTERM cancels the context
Cancel ==
    /\ pc \notin Terminal
    /\ ~cancelled
    /\ cancelled' = TRUE
    /\ UNCHANGED <<rvars, cvars>>
    /\ UNCHANGED <<cls, nsingle, created, confirmed, skipped0, redescribed>>
    /\ UNCHANGED <<store, nextId, store0, cfgBackupFolder, dryRun, resume, pc,
                   files, folders, backupFolder, filesToBackup, bk,
                   existingFolderNames, cache, filesToOrganize, i, suggestion,
                   targetFolder, targetName, destFolder, organized, skipped,
                   calls, nprompts, last>>

Next ==
    \/ ListRoot
    \/ CreateBackupFolder
    \/ Branch
    \/ BackupMove
    \/ InitClassifier
    \/ FileLoop
    \/ Prompt
    \/ ResolveTarget
    \/ MoveTarget
    \/ Cancel

Spec == Init /\ [][Next]_vars

\* ------------------------------------------------------------------------
\* Properties of the organize run
\* ------------------------------------------------------------------------
Prompted == last.idx # 0

\* A step of Prompt (the only step that counts a prompt)
PromptStep == pc = "prompt" /\ nprompts' = nprompts + 1

BackupMoves == {k \in 1..Len(calls) : calls[k].stage = "backup" /\ calls[k].op = "move"}

\* The name FindOrCreateNestedFolder resolves first: the first non-blank
\* segment of the path, trimmed
RECURSIVE FirstResolved(_)
FirstResolved(parts) ==
    IF parts = <<>> THEN <<>>
    ELSE IF TrimSpace(Head(parts)) # <<>> THEN TrimSpace(Head(parts))
    ELSE FirstResolved(Tail(parts))

\* The root-level folders the backup path starts at
BackupRootFolders ==
    {id \in DOMAIN store0 :
        /\ store0[id].mime = FolderMime
        /\ InSeq(Root, store0[id].parents)
        /\ store0[id].name = FirstResolved(Split(cfgBackupFolder, "/"))}

\* C1: the Backup Stager never moves the backup container or the root-level
\* folder the backup path starts with, whatever the backup path is.
C1_BackupFolderNeverMoved ==
    \A k \in BackupMoves :
        /\ calls[k].id # backupFolder.ID
        /\ calls[k].id \notin BackupRootFolders

\* C2: in dry-run mode no mutating remote call is issued and the store at
\* the end of the run is the store at its start.
C2_DryRunMutatesNothing ==
    dryRun => /\ calls = <<>>
              /\ pc \in Terminal => store = store0

\* C3: "c" with an empty folder name is a Skip outcome: the decision of the
\* file is over and the driver is at the next file.
C3_EmptyCreateSkips ==
    (Prompted /\ last.input = <<"c">> /\ last.reply = <<>>)
        => (pc = "loop" /\ i = last.idx + 1)

\* C4: "m" or the empty input ends the decision with the suggested folder
\* and the suggested name, or the original name when the suggestion has no
\* name or the same name.
C4_AcceptOutcome ==
    (Prompted /\ last.input \in {<<"m">>, <<>>})
        => /\ pc = "resolve"
           /\ i = last.idx
           /\ targetFolder = last.sug.SuggestedFolder
           /\ targetName =
                IF /\ last.sug.SuggestedName # <<>>
                   /\ last.sug.SuggestedName # filesToOrganize[i].Name
                THEN last.sug.SuggestedName
                ELSE filesToOrganize[i].Name

C4_Witness ==
    /\ Prompted
    /\ last.input = <<"m">>
    /\ pc = "resolve"
    /\ last.sug.SuggestedName = <<"z">>
    /\ targetName = <<"z">>
    /\ targetFolder = <<"w", "/", "r">>

\* C5: "c" with a non-empty folder name X ends the decision with the folder X
\* and the name Accept would give, whatever folder was suggested.
C5_CreateOutcome ==
    (Prompted /\ last.input = <<"c">> /\ last.reply # <<>>)
        => /\ pc = "resolve"
           /\ i = last.idx
           /\ targetFolder = last.reply
           /\ targetName =
                IF /\ last.sug.SuggestedName # <<>>
                   /\ last.sug.SuggestedName # filesToOrganize[i].Name
                THEN last.sug.SuggestedName
                ELSE filesToOrganize[i].Name

C5_Witness ==
    /\ Prompted
    /\ last.input = <<"c">>
    /\ last.reply = <<"v">>
    /\ pc = "resolve"
    /\ targetFolder = <<"v">>
    /\ last.sug.SuggestedFolder = <<"w", "/", "r">>
    /\ targetName = <<"z">>

\* C6: "q" ends the whole run at once: the run has returned, the step that
\* reads it changes no counter, issues no call and changes neither store nor
\* cache, and nothing happens after it.
C6_QuitEndsRun ==
    /\ []((Prompted /\ last.input = <<"q">>) => pc = "retQuit")
    /\ [][(PromptStep /\ last'.input = <<"q">>)
            => /\ organized' = organized
               /\ skipped' = skipped
               /\ calls' = calls
               /\ store' = store
               /\ cache' = cache]_vars
    /\ [][pc # "retQuit"]_vars

C6_Witness ==
    /\ pc = "retQuit"
    /\ last.input = <<"q">>
    /\ last.idx = 2
    /\ organized = 1

\* C7: "p" and every unrecognized input are Skip outcomes: no remote call,
\* hints and organized unchanged, skipped one more, on to the next file.
Recognized == {<<"m">>, <<>>, <<"d">>, <<"r">>, <<"n">>, <<"c">>, <<"q">>}

C7_SkipOutcome ==
    [][(PromptStep /\ last'.input \notin Recognized)
         => /\ pc' = "loop"
            /\ i' = i + 1
            /\ skipped' = skipped + 1
            /\ organized' = organized
            /\ existingFolderNames' = existingFolderNames
            /\ calls' = calls
            /\ store' = store]_vars

C7_Witness ==
    /\ Prompted
    /\ last.input = <<"x">>
    /\ pc = "loop"
    /\ i = 2
    /\ Len(filesToOrganize) = 2
    /\ skipped = 1

\* C8: "d" emits no outcome and asks again for the same file; the suggestion
\* and the cache entry of the file's key are replaced exactly when the
\* description is not empty and the re-classification succeeds.
C8_DescribeLoops ==
    [][(PromptStep /\ last'.input = <<"d">>)
         => /\ pc' = "prompt"
            /\ i' = i
            /\ calls' = calls
            /\ organized' = organized
            /\ skipped' = skipped
            /\ IF last'.reply # <<>> /\ ~last'.answer.err
               THEN /\ suggestion' = ClassifyResult(last'.answer).sug
                    /\ CacheGet(cache', CacheKey(filesToOrganize[i].Name,
                                                 filesToOrganize[i].MimeType))
                         = suggestion'
               ELSE /\ suggestion' = suggestion
                    /\ cache' = cache]_vars

C8_Witness ==
    /\ Prompted
    /\ last.input = <<"d">>
    /\ last.reply # <<>>
    /\ ~last.answer.err
    /\ pc = "prompt"
    /\ suggestion # last.sug
    /\ CacheGet(cache, CacheKey(filesToOrganize[i].Name,
                                filesToOrganize[i].MimeType)) = suggestion

\* C20: in resume mode no move of the backup stage is ever issued, whatever
\* the root listing holds, and the work queue the run goes on with is the
\* recursive listing of the backup folder as the store then is: the files
\* below the backup folder, none of the root.
C20_ResumeUsesBackupListing ==
    /\ [](resume => BackupMoves = {})
    /\ [][(resume /\ pc = "branch" /\ pc' = "classifier")
            => \E bad \in SUBSET FoldersOf(store) :
                  filesToBackup' =
                      ListAllFilesRecursive(store, backupFolder.ID, bad).files]_vars
    /\ [][(resume /\ pc = "classifier" /\ pc' = "loop")
            => /\ filesToOrganize' = filesToBackup
               /\ store' = store
               /\ \A k \in 1..Len(filesToOrganize') :
                     /\ ~IsFolder(filesToOrganize'[k])
                     /\ ~InSeq(Root, filesToOrganize'[k].Parents)]_vars

C20_Witness ==
    /\ resume
    /\ pc = "loop"
    /\ Len(files) = 1
    /\ filesToOrganize = <<Info(store0, 4)>>
    /\ calls = <<>>

\* The root of the store the run started on holds nothing but the folder
\* the backup path starts at
RootOnlyBackup ==
    /\ BackupRootFolders # {}
    /\ \A id \in DOMAIN store0 :
          InSeq(Root, store0[id].parents) => id \in BackupRootFolders

\* C21: with resume off and a root that holds only the folder the backup
\* path starts at, no move of the backup stage is issued, the work queue is
\* the recursive listing of the backup folder, and when that listing is
\* empty the run returns without error and without any classification call.
C21_NothingNewFallsBack ==
    /\ []((~resume /\ RootOnlyBackup) => BackupMoves = {})
    /\ [][(~resume /\ RootOnlyBackup /\ pc = "branch" /\ pc' # "branch")
            => \E bad \in SUBSET FoldersOf(store) :
                  LET r == ListAllFilesRecursive(store, backupFolder.ID, bad)
                  IN \/ r.err /\ pc' = "retError"
                     \/ /\ ~r.err /\ r.files = <<>>
                        /\ pc' = "retNothing"
                        /\ nsingle = <<>>
                     \/ /\ ~r.err /\ r.files # <<>>
                        /\ pc' = "classifier"
                        /\ filesToBackup' = r.files]_vars
    /\ []((~resume /\ RootOnlyBackup /\ pc = "retNothing") => nsingle = <<>>)

\* The same statement for the backup paths whose first segment is already
\* the name the resolution looks up ("b", "b/s")
C21_PlainPath ==
    /\ []((~resume /\ RootOnlyBackup /\ cfgBackupFolder \in {<<"b">>, <<"b", "/", "s">>})
            => BackupMoves = {})
    /\ [][(~resume /\ RootOnlyBackup /\ cfgBackupFolder \in {<<"b">>, <<"b", "/", "s">>}
            /\ pc = "branch" /\ pc' # "branch")
            => \E bad \in SUBSET FoldersOf(store) :
                  LET r == ListAllFilesRecursive(store, backupFolder.ID, bad)
                  IN \/ r.err /\ pc' = "retError"
                     \/ /\ ~r.err /\ r.files = <<>>
                        /\ pc' = "retNothing"
                        /\ nsingle = <<>>
                     \/ /\ ~r.err /\ r.files # <<>>
                        /\ pc' = "classifier"
                        /\ filesToBackup' = r.files]_vars

\* The step of MoveTarget: the Files.Update of the organization stage
MoveStep == pc = "move" /\ pc' = "loop"

\* C23: the old parent passed with the move of the organization stage is
\* the first parent the file has in the store at that moment, so that after
\* a successful call the file is a child of the target folder and of none of
\* the folders it was in; the call is a move with rename exactly when the
\* target name differs from the name of the file.
C23_OldParentIsCurrent ==
    [][MoveStep =>
        LET f == filesToOrganize[i]
            c == calls'[Len(calls')]
            before == store[f.ID].parents
            after == store'[f.ID].parents
        IN /\ before # <<>> => c.oldParent = before[1]
           /\ c.ok => /\ InSeq(destFolder.ID, after)
                      /\ \A k \in 1..Len(before) :
                            before[k] # destFolder.ID => ~InSeq(before[k], after)
           /\ (c.op = "moverename") <=> (targetName # store[f.ID].name)
           /\ (c.op = "move") <=> (targetName = store[f.ID].name)]_vars

\* The part of C23 that does not depend on the parent: the kind of call
C23_RenameIffNameDiffers ==
    [][MoveStep =>
        LET f == filesToOrganize[i]
            c == calls'[Len(calls')]
        IN /\ (c.op = "moverename") <=> (targetName # store[f.ID].name)
           /\ (c.op = "move") <=> (targetName = store[f.ID].name)
           /\ c.id = f.ID /\ c.newParent = destFolder.ID]_vars

\* C24: the folder hints only grow, and every target path whose resolution
\* created a folder for an earlier file is among the hints passed with every
\* later call of the classifier.
C24_HintsCoverCreated ==
    /\ [][\A k \in 1..Len(existingFolderNames) :
            InSeq(existingFolderNames[k], existingFolderNames')]_vars
    /\ [](cls # NoCall =>
            \A k \in 1..Len(created) :
                created[k].idx < cls.idx => InSeq(created[k].path, cls.hints))

\* The part of C24 that holds: the hints only grow, and the target of every
\* successful move of an earlier file is among the hints of later calls
C24_HintsMonotone ==
    /\ [][\A k \in 1..Len(existingFolderNames) :
            InSeq(existingFolderNames[k], existingFolderNames')]_vars
    /\ [][MoveStep /\ calls'[Len(calls')].ok
            => InSeq(targetFolder, existingFolderNames')]_vars

\* The three per-file failures: ClassifySingle fails, the target folder is
\* not resolved, the move or move with rename fails
ClassifyFails == pc = "loop" /\ cls' # cls /\ cls' # NoCall /\ ~cls'.ok
ResolveFails == pc = "resolve" /\ pc' = "loop"
MoveFails == MoveStep /\ ~calls'[Len(calls')].ok
FileFails == ClassifyFails \/ ResolveFails \/ MoveFails

\* C25: a failure of the classification, of the resolution of the target
\* folder or of the move leaves the file counted as skipped exactly once
\* (skipped is one more than when the file was started), leaves organized
\* unchanged, and the run goes on with the next file.
C25_FailureSkipsOnce ==
    [][FileFails =>
        /\ skipped' = skipped0' + 1
        /\ organized' = organized
        /\ pc' = "loop"
        /\ i' = i + 1]_vars

\* What every failure step does by itself: one increment of skipped, none of
\* organized, and the loop goes to the next file
C25_FailureStep ==
    [][FileFails =>
        /\ skipped' = skipped + 1
        /\ organized' = organized
        /\ pc' = "loop"
        /\ i' = i + 1]_vars

\* The stages the cancellation check of a loop guards
InBackupStage == pc = "backup"
InOrganizeLoop == pc \in {"loop", "prompt", "resolve", "move"}

\* After the cancellation: no file is started, no call of the classifier
\* succeeds and no call mutates the store
NoWorkAfterCancel ==
    /\ [][cancelled => ~(pc = "loop" /\ pc' = "prompt")]_vars
    /\ [][(cancelled /\ cls' # cls) => (cls' = NoCall \/ ~cls'.ok)]_vars
    /\ [][cancelled => /\ store' = store
                       /\ organized' = organized
                       /\ \A k \in Len(calls) + 1..Len(calls') : ~calls'[k].ok]_vars

\* C26: once the cancellation flag is set no further file is started and no
\* further remote mutation succeeds, and the run returns without an error,
\* with the count of the files organized so far, from the backup stage as
\* well as from the organization loop.
C26_CancelReturnsCleanly ==
    /\ NoWorkAfterCancel
    /\ [][(cancelled /\ (InBackupStage \/ InOrganizeLoop)) => pc' # "retError"]_vars
    /\ [][(cancelled /\ (InBackupStage \/ pc = "loop") /\ pc' # pc)
            => pc' \in {"retCancelled", "retDone"}]_vars

\* The part of C26 that holds: the same statement for the organization loop
\* alone
C26_OrganizeLoopCancel ==
    /\ NoWorkAfterCancel
    /\ [][(cancelled /\ InOrganizeLoop) => pc' # "retError"]_vars
    /\ [][(cancelled /\ pc = "loop" /\ pc' # pc)
            => pc' \in {"retCancelled", "retDone"}]_vars

\* The steps the program takes by itself. A step of Prompt waits for a line
\* of the terminal (reader.ReadString blocks until the user types one) and
\* Cancel for a signal: neither is bound to happen.
ProgramStep ==
    \/ ListRoot
    \/ CreateBackupFolder
    \/ Branch
    \/ BackupMove
    \/ InitClassifier
    \/ FileLoop
    \/ ResolveTarget
    \/ MoveTarget

\* The fair runs explored: the default backup path on a root holding one
\* file and the backup folder, in every mode
InitFair == Init /\ store0 = StoreOf({1, 3}) /\ cfgBackupFolder = <<"b">>

SpecFair == InitFair /\ [][Next]_vars /\ WF_vars(ProgramStep)

\* C27: after the interrupt signal the run eventually returns, wherever it
\* is suspended, without any further line typed by the user.
C27_CancelEventuallyReturns == cancelled ~> (pc \in Terminal)

\* The part of C27 that holds: the wait for the terminal is the only
\* suspension a cancelled run can stay in, and a run that was cancelled
\* elsewhere never comes to it
C27_PromptOnlyWait ==
    /\ [][(cancelled /\ pc # "prompt") => pc' # "prompt"]_vars
    /\ [](cancelled /\ pc \notin Terminal /\ pc # "prompt" => ENABLED ProgramStep)

\* The cache key of the file the loop is at
CurrentKey ==
    CacheKey(filesToOrganize[i].Name, filesToOrganize[i].MimeType)

\* C28: for every cache key ClassifySingle succeeds at most once in a run,
\* and a file whose key was classified before is presented the suggestion
\* the cache holds for the key, without a call of the classifier.
C28_OneClassificationPerKey ==
    /\ [](\A key \in DOMAIN nsingle : nsingle[key] <= 1)
    /\ [][(pc = "loop" /\ ~cancelled /\ i <= Len(filesToOrganize)
            /\ Count(nsingle, CurrentKey) >= 1)
            => /\ pc' = "prompt"
               /\ i' = i
               /\ suggestion' = CacheGet(cache, CurrentKey)
               /\ suggestion' # NilSuggestion
               /\ cls' = cls
               /\ nsingle' = nsingle]_<<pc, i, suggestion, cls, nsingle>>

C28_Witness ==
    /\ pc = "prompt"
    /\ i = 2
    /\ nprompts = 0
    /\ cls = NoCall
    /\ Count(nsingle, CurrentKey) = 1
    /\ suggestion = CacheGet(cache, CurrentKey)

\* The calls a step issues, and those of them that move or rename an item
Issued == Len(calls) + 1..Len(calls')
Relocates(c) == c.op \in {"move", "moverename", "rename"}

\* The user action given for the item before the step: "m" or an empty
\* line, "r", "n", or "c" with a folder name
ConfirmedFor(id) ==
    /\ confirmed # NoConfirm
    /\ confirmed.id = id
    /\ confirmed.input \in {<<"m">>, <<>>, <<"r">>, <<"n">>, <<"c">>}
    /\ confirmed.input = <<"c">> => confirmed.reply # <<>>

\* C29 as stated: every move or rename issued to the store, in any stage,
\* follows a user action given for that item.
C29_EveryMoveConfirmed ==
    [][\A k \in Issued : Relocates(calls'[k]) => ConfirmedFor(calls'[k].id)]_vars

\* C29: every move or rename the organization stage issues follows a user
\* action given for that item at its prompt (the moves of the backup stage
\* are issued for every root item without any prompt).
C29_OrganizeMovesConfirmed ==
    [][\A k \in Issued :
        (Relocates(calls'[k]) /\ calls'[k].stage = "organize")
            => /\ ConfirmedFor(calls'[k].id)
               /\ confirmed.idx = i
               /\ calls'[k].id = filesToOrganize[i].ID]_vars

C29_Witness ==
    /\ BackupMoves # {}
    /\ calls[Len(calls)].stage = "organize"
    /\ calls[Len(calls)].op = "moverename"
    /\ calls[Len(calls)].ok
    /\ confirmed.id = calls[Len(calls)].id
    /\ confirmed.input = <<"c">>

\* The organization stage is running
Organizing == pc \in {"loop", "prompt", "resolve", "move"}

\* C30: the work queue of the organization loop is the backup set without
\* its folders, in the same order; no folder is ever classified, presented,
\* moved or renamed by the organization stage; and the files are taken one
\* at a time in queue order, every call and prompt being for the file the
\* loop is at, which changes only by going to the next one.
C30_FilesOnlyInOrder ==
    /\ [](Organizing =>
            /\ filesToOrganize = SelectSeq(filesToBackup, LAMBDA f : ~IsFolder(f))
            /\ \A k \in 1..Len(filesToOrganize) :
                  store[filesToOrganize[k].ID].mime # FolderMime)
    /\ [](pc \in {"prompt", "resolve", "move"} =>
            /\ i \in 1..Len(filesToOrganize)
            /\ ~IsFolder(filesToOrganize[i]))
    /\ [](cls # NoCall => store[cls.id].mime # FolderMime)
    /\ [](\A k \in 1..Len(calls) :
            (calls[k].stage = "organize" /\ Relocates(calls[k]))
                => store0[calls[k].id].mime # FolderMime)
    /\ [][(cls' # cls /\ cls' # NoCall)
            => /\ cls'.idx = i
               /\ cls'.id = filesToOrganize[i].ID]_vars
    /\ [][\A k \in Issued :
            (calls'[k].stage = "organize" /\ Relocates(calls'[k]))
                => calls'[k].id = filesToOrganize[i].ID]_vars
    /\ [][Organizing => /\ i' \in {i, i + 1}
                        /\ i' = i + 1 => pc' = "loop"
                        /\ filesToOrganize' = filesToOrganize]_vars

C30_Witness ==
    /\ \E k \in 1..Len(filesToBackup) : IsFolder(filesToBackup[k])
    /\ Len(filesToOrganize) = 1
    /\ pc = "loop"
    /\ i = 2
    /\ organized = 1

\* The name Accept gives for the file of the prompt just answered
AcceptedName ==
    IF /\ last.sug.SuggestedName # <<>>
       /\ last.sug.SuggestedName # filesToOrganize[last.idx].Name
    THEN last.sug.SuggestedName
    ELSE filesToOrganize[last.idx].Name

\* C31: "r" and "n" end the decision of the file. "r" with the folder F
\* gives (F, the name Accept gives), "n" with the name N gives (the
\* suggested folder, N), and with an empty reply each gives the outcome of
\* Accept: the suggested folder and the name Accept gives.
C31_RenameOutcomes ==
    /\ (Prompted /\ last.input = <<"r">>)
          => /\ pc = "resolve"
             /\ i = last.idx
             /\ targetFolder = IF last.reply # <<>> THEN last.reply
                               ELSE last.sug.SuggestedFolder
             /\ targetName = AcceptedName
    /\ (Prompted /\ last.input = <<"n">>)
          => /\ pc = "resolve"
             /\ i = last.idx
             /\ targetFolder = last.sug.SuggestedFolder
             /\ targetName = IF last.reply # <<>> THEN last.reply
                             ELSE AcceptedName
    /\ (Prompted /\ last.input \in {<<"r">>, <<"n">>})
          => /\ suggestion = last.sug
             /\ confirmed.idx = last.idx

C31_Witness ==
    /\ Prompted
    /\ last.input = <<"n">>
    /\ last.reply = <<>>
    /\ pc = "resolve"
    /\ last.sug.SuggestedName = <<"z">>
    /\ targetName = <<"z">>
    /\ targetFolder = <<"w", "/", "r">>

\* The files of the queue whose processing has started
Started == IF pc \in {"prompt", "resolve", "move"} THEN i ELSE i - 1

\* C35: in the organization loop organized + skipped is at most the number
\* of files started, and when the loop ends by exhaustion it is the total,
\* the number of files to organize.
C35_CountersConsistent ==
    /\ Organizing => organized + skipped <= Started
    /\ pc = "retDone" => organized + skipped = Len(filesToOrganize)

\* The step of "c" with an empty name
EmptyCreateStep ==
    /\ pc = "prompt"
    /\ pc' = "prompt"
    /\ last'.input = <<"c">>
    /\ last'.reply = <<>>

\* C35, the steps taken alone: but for the empty name of "c", a step that
\* counts a file counts it once and leaves the file.
C35_CountingSteps ==
    [][(organized' + skipped' # organized + skipped /\ ~EmptyCreateStep)
          => /\ organized' + skipped' = organized + skipped + 1
             /\ pc' = "loop"
             /\ i' = i + 1]_vars

\* C36: FindOrCreateNestedFolder returns a folder whenever it returns no
\* error: the backup folder in use and the destination of a move are never
\* absent, and the run never dereferences an absent folder.
C36_FolderNeverAbsent ==
    /\ pc \in {"branch", "backup", "classifier", "loop", "prompt", "resolve",
               "move"} => backupFolder # NilFile
    /\ pc = "move" => destFolder # NilFile
    /\ pc # "panic"

\* C36, the destination alone: with a backup folder present, the run does
\* not dereference an absent destination.
C36_DestinationNeverAbsent ==
    (pc = "panic" /\ backupFolder # NilFile) => destFolder # NilFile

\* The moves and renames of the item issued by the organization stage
OrganizeMoves(id) ==
    {k \in 1..Len(calls) :
        /\ calls[k].stage = "organize"
        /\ Relocates(calls[k])
        /\ calls[k].id = id}

OrganizeSucceeded(id) == {k \in OrganizeMoves(id) : calls[k].ok}

\* C39: in the organization stage each file of the queue receives at most
\* one successful move or move+rename, organized is the number of files
\* whose move succeeded, and a move is issued only for the file the loop is
\* at, after its decision has given the target folder and name: toward the
\* folder resolved from targetFolder and under targetName.
C39_OneMovePerDecision ==
    /\ [](Organizing =>
            /\ \A k \in 1..Len(filesToOrganize) :
                  /\ Cardinality(OrganizeSucceeded(filesToOrganize[k].ID)) <= 1
                  /\ k >= i => OrganizeMoves(filesToOrganize[k].ID) = {}
            /\ organized
                 = Cardinality({k \in 1..Len(filesToOrganize) :
                       OrganizeSucceeded(filesToOrganize[k].ID) # {}}))
    /\ [][\A k \in Issued :
            (Relocates(calls'[k]) /\ calls'[k].stage = "organize")
                => /\ pc = "move"
                   /\ Len(calls') = Len(calls) + 1
                   /\ confirmed.idx = i
                   /\ calls'[k].id = filesToOrganize[i].ID
                   /\ calls'[k].name = targetName
                   /\ calls'[k].newParent = destFolder.ID
                   /\ i' = i + 1]_vars

C39_Witness ==
    /\ pc = "loop"
    /\ organized = 1
    /\ skipped = 1
    /\ \E k \in 1..Len(calls) :
          /\ calls[k].stage = "organize"
          /\ calls[k].op = "move"
          /\ ~calls[k].ok
    /\ calls[Len(calls)].stage = "organize"
    /\ calls[Len(calls)].op = "moverename"
    /\ calls[Len(calls)].ok

\* C40: the cache holds only suggestions returned by a successful
\* classification.  Every entry is a suggestion, of a key classified with
\* success; the cache changes only on a step whose classifier call, for
\* the file at hand, succeeded, and then by storing the suggestion returned
\* under that file's key; a failed initial classification leaves the key
\* without entry and a failed re-classification leaves the cache as it
\* was; the suggestion presented is the one the cache holds for the file's
\* key, so that a later file of a key stored by "d" is presented that
\* suggestion without a new classification.
C40_CacheOnlySuccesses ==
    /\ [](/\ \A key \in DOMAIN cache :
               /\ cache[key] # NilSuggestion
               /\ Count(nsingle, key) >= 1
          /\ redescribed \subseteq DOMAIN cache
          /\ pc = "prompt" => suggestion = CacheGet(cache, CurrentKey))
    /\ [][cache' # cache
            => /\ cls' # NoCall
               /\ cls'.ok
               /\ cls'.idx = i
               /\ suggestion' # NilSuggestion
               /\ cache' = CacheSet(cache, CurrentKey, suggestion')]_vars
    /\ [][(cls' # NoCall /\ ~cls'.ok) => cache' = cache]_vars
    /\ [][(pc = "loop" /\ pc' = "loop" /\ i' = i + 1)
            => CurrentKey \notin DOMAIN cache']_vars
    /\ [][(pc = "loop" /\ pc' = "prompt" /\ CurrentKey \in redescribed)
            => /\ suggestion' = cache[CurrentKey]
               /\ cache' = cache
               /\ nsingle' = nsingle]_vars

C40_Witness ==
    /\ pc = "prompt"
    /\ nprompts = 0
    /\ i = 2
    /\ CurrentKey \in redescribed
    /\ Count(nsingle, CurrentKey) = 1
    /\ suggestion = cache[CurrentKey]
    /\ suggestion = Sug(<<"w", "/", "r">>, <<"z">>)

\* ------------------------------------------------------------------------
\* The retry executor: MoveFile, RenameFile and MoveAndRenameFile wrap one
\* Files.Update in backoff.Retry(operation, backoff.WithContext(b, ctx)).
\* Time is counted in ticks of 1/512 s, in which every interval of the
\* exponential backoff (multiplier 3/2, randomization 1/2) is an integer.
\* ------------------------------------------------------------------------
Seconds(n) == n * 512

InitialIntervalSeconds == 1
MaxIntervalSeconds == 30
MaxElapsedMinutes == 2

InitialInterval == Seconds(InitialIntervalSeconds)
MaxInterval == Seconds(MaxIntervalSeconds)
MaxElapsedTime == Seconds(60 * MaxElapsedMinutes)

\* Errors a remote call can return: googleapi.Error with a status code, or
\* a plain network error.  text is what Error() shows of it.
ApiErr(code, text) == [api |-> TRUE, code |-> code, text |-> text]
NetErr(text) == [api |-> FALSE, code |-> 0, text |-> text]

RetryErrs ==
    [e \in {"E429", "E500", "E502", "E503", "E504", "E404", "E403", "E408",
            "reset", "refused", "iotimeout", "eof", "canceled"} |->
        CASE e = "E429" -> ApiErr(429, <<"r", "a", "t", "e", "L", "i", "m", "i", "t">>)
          [] e = "E500" -> ApiErr(500, <<"b", "a", "c", "k", "e", "n", "d">>)
          [] e = "E502" -> ApiErr(502, <<"b", "a", "c", "k", "e", "n", "d">>)
          [] e = "E503" -> ApiErr(503, <<"b", "a", "c", "k", "e", "n", "d">>)
          [] e = "E504" -> ApiErr(504, <<"b", "a", "c", "k", "e", "n", "d">>)
          [] e = "E404" -> ApiErr(404, <<"n", "o", "t", "F", "o", "u", "n", "d">>)
          [] e = "E403" -> ApiErr(403, <<"f", "o", "r", "b", "i", "d", "d", "e", "n">>)
          [] e = "E408" -> ApiErr(408, <<"R", "e", "q", "u", "e", "s", "t", " ",
                                         "t", "i", "m", "e", "o", "u", "t">>)
          [] e = "reset" -> NetErr(<<"r", "e", "a", "d", ":", " ", "c", "o", "n", "n",
                                     "e", "c", "t", "i", "o", "n", " ", "r", "e", "s",
                                     "e", "t", " ", "b", "y", " ", "p", "e", "e", "r">>)
          [] e = "refused" -> NetErr(<<"d", "i", "a", "l", ":", " ", "c", "o", "n", "n",
                                       "e", "c", "t", "i", "o", "n", " ", "r", "e", "f",
                                       "u", "s", "e", "d">>)
          [] e = "iotimeout" -> NetErr(<<"i", "/", "o", " ", "t", "i", "m", "e", "o",
                                         "u", "t">>)
          [] e = "eof" -> NetErr(<<"u", "n", "e", "x", "p", "e", "c", "t", "e", "d", " ",
                                   "E", "O", "F">>)
          [] e = "canceled" -> NetErr(<<"c", "o", "n", "t", "e", "x", "t", " ", "c", "a",
                                        "n", "c", "e", "l", "e", "d">>)]

isRetryable(err) ==
    \/ err.api /\ err.code \in {429, 500, 502, 503, 504}
    \/ Contains(err.text, <<"c", "o", "n", "n", "e", "c", "t", "i", "o", "n", " ",
                            "r", "e", "s", "e", "t">>)
    \/ Contains(err.text, <<"c", "o", "n", "n", "e", "c", "t", "i", "o", "n", " ",
                            "r", "e", "f", "u", "s", "e", "d">>)
    \/ Contains(err.text, <<"t", "i", "m", "e", "o", "u", "t">>)

\* A slip: the error is never wrapped in backoff.Permanent
OperationNeverPermanent(e) == IF e = "nil" THEN "ok" ELSE "retry"

\* What the operation closure hands to backoff.Retry
Operation(e) ==
    IF e = "nil" THEN "ok"
    ELSE IF isRetryable(RetryErrs[e]) THEN "retry" ELSE "permanent"

\* ExponentialBackOff: the randomized interval (the two ends of the range
\* [cur - cur/2, cur + cur/2] it is drawn from), the next interval, the stop
RandomizedIntervals(cur) == {cur - cur \div 2, cur + cur \div 2}

IncrementCurrentInterval(cur) ==
    IF 3 * cur >= 2 * MaxInterval THEN MaxInterval ELSE (3 * cur) \div 2

\* A slip: MaxInterval is taken for the budget
BudgetExhaustedAtMaxInterval(elapsed, next) == elapsed + next > MaxInterval

BudgetExhausted(elapsed, next) == elapsed + next > MaxElapsedTime

\* The operation closure of listFilesInFolder, which classifies the error
\* itself: only the codes 500, 503 and 429 are returned for a retry
ListOperation(e) ==
    IF e = "nil" THEN "ok"
    ELSE IF RetryErrs[e].api /\ RetryErrs[e].code \in {500, 503, 429}
         THEN "retry" ELSE "permanent"

\* A slip: backoff.Retry(operation, b), the context not handed to the backoff
BackOffCtxBackground(ctxDone) == FALSE

\* backoff.WithContext(b, ctx): the context NextBackOff and the select of
\* backoff.Retry observe
BackOffCtx(ctxDone) == ctxDone

Movers == {"MoveFile", "RenameFile", "MoveAndRenameFile"}
FolderCalls == {"FindFolderByName", "CreateFolder"}

\* What the remote call can return: success, retryable and permanent
\* errors; with a cancelled context, the context's error
OpOutcomes ==
    IF rctxDone THEN {"canceled"}
    ELSE IF rfunc \in Movers
         THEN {"nil", "E503", "reset", "E404", "eof", "E408"}
         ELSE {"nil", "E429", "E500", "E502", "E503", "E504", "reset",
               "iotimeout", "E404"}

MainIdle ==
    /\ store = <<>>
    /\ nextId = FirstNewId
    /\ store0 = <<>>
    /\ cfgBackupFolder = <<>>
    /\ dryRun = FALSE
    /\ resume = FALSE
    /\ cancelled = FALSE
    /\ pc = "idle"
    /\ files = <<>>
    /\ folders = <<>>
    /\ backupFolder = NilFile
    /\ filesToBackup = <<>>
    /\ bk = 1
    /\ existingFolderNames = <<>>
    /\ cache = <<>>
    /\ filesToOrganize = <<>>
    /\ i = 1
    /\ suggestion = NilSuggestion
    /\ targetFolder = <<>>
    /\ targetName = <<>>
    /\ destFolder = NilFile
    /\ organized = 0
    /\ skipped = 0
    /\ calls = <<>>
    /\ nprompts = 0
    /\ last = NoPrompt
    /\ HistoryIdle

RetryInit ==
    /\ MainIdle
    /\ ComponentsIdle
    /\ rpc = "call"
    /\ rfunc \in Movers
    /\ rctxDone = FALSE
    /\ attempts = 0
    /\ transients = 0
    /\ waits = 0
    /\ now = 0
    /\ currentInterval = InitialInterval
    /\ timer = 0
    /\ rerr = "nil"
    /\ rresult = "none"

\* operation(): one Files.Update (one Files.List in listFilesInFolder)
ROperation ==
    /\ rpc = "call"
    /\ rfunc \notin FolderCalls
    /\ \E e \in OpOutcomes :
        LET class == IF rfunc = "listFilesInFolder"
                     THEN ListOperation(e) ELSE Operation(e)
        IN
        /\ attempts' = attempts + 1
        /\ rerr' = e
        /\ CASE class = "ok" ->
                    /\ rpc' = "done"
                    /\ rresult' = "ok"
                    /\ UNCHANGED transients
             [] class = "permanent" ->
                    /\ rpc' = "done"
                    /\ rresult' = "error"
                    /\ UNCHANGED transients
             [] class = "retry" ->
                    /\ rpc' = "backoff"
                    /\ transients' = transients + 1
                    /\ UNCHANGED rresult
    /\ UNCHANGED <<rfunc, rctxDone, waits, now, currentInterval, timer>>
    /\ UNCHANGED <<mvars, cvars>>

\* b.NextBackOff() of the context-aware backoff, and the Stop case
RNextBackOff ==
    /\ rpc = "backoff"
    /\ IF BackOffCtx(rctxDone)
       THEN /\ rpc' = "done"
            /\ rresult' = "cancelled"
            /\ UNCHANGED <<currentInterval, timer>>
       ELSE \E next \in RandomizedIntervals(currentInterval) :
            /\ currentInterval' = IncrementCurrentInterval(currentInterval)
            /\ timer' = next
            /\ IF BudgetExhausted(now, next)
               THEN /\ rpc' = "done"
                    /\ rresult' = "error"
               ELSE /\ rpc' = "wait"
                    /\ UNCHANGED rresult
    /\ UNCHANGED <<rfunc, rctxDone, attempts, transients, waits, now, rerr>>
    /\ UNCHANGED <<mvars, cvars>>

\* select: the timer fires.  A select blocked on the timer and ctx.Done()
\* is woken by whichever is ready first, so the timer is taken only while
\* the context the backoff observes is not done.
RTimer ==
    /\ rpc = "wait"
    /\ ~BackOffCtx(rctxDone)
    /\ now' = now + timer
    /\ waits' = waits + 1
    /\ rpc' = "call"
    /\ UNCHANGED <<rfunc, rctxDone, attempts, transients, currentInterval,
                   timer, rerr, rresult>>
    /\ UNCHANGED <<mvars, cvars>>

\* select: ctx.Done() is ready
RCtxDone ==
    /\ rpc = "wait"
    /\ BackOffCtx(rctxDone)
    /\ rpc' = "done"
    /\ rresult' = "cancelled"
    /\ UNCHANGED <<rfunc, rctxDone, attempts, transients, waits, now,
                   currentInterval, timer, rerr>>
    /\ UNCHANGED <<mvars, cvars>>

\* The run's context is cancelled while the call is in progress
RCancel ==
    /\ rpc \in {"call", "backoff", "wait"}
    /\ ~rctxDone
    /\ rctxDone' = TRUE
    /\ UNCHANGED <<rpc, rfunc, attempts, transients, waits, now,
                   currentInterval, timer, rerr, rresult>>
    /\ UNCHANGED <<mvars, cvars>>

RetryNext ==
    \/ ROperation
    \/ RNextBackOff
    \/ RTimer
    \/ RCtxDone
    \/ RCancel

SpecRetry == RetryInit /\ [][RetryNext]_vars

\* ------------------------------------------------------------------------
\* Properties of the retry executor
\* ------------------------------------------------------------------------
Permanent(e) == e # "nil" /\ ~isRetryable(RetryErrs[e])

\* C9: once the operation has failed with a permanent error the executor
\* has returned that failure: the failing invocation was the last one and no
\* wait followed it; when it is the first failure, the operation ran exactly
\* once and no time was spent waiting.
C9_PermanentNotRetried ==
    Permanent(rerr)
        => /\ rpc = "done"
           /\ rresult = "error"
           /\ attempts = transients + 1
           /\ waits = transients
           /\ transients = 0 => (attempts = 1 /\ waits = 0 /\ now = 0)

C9_Witness ==
    /\ rpc = "done"
    /\ rfunc = "MoveAndRenameFile"
    /\ rerr = "E404"
    /\ rresult = "error"
    /\ attempts = 1
    /\ waits = 0

\* C10: without cancellation, a call that returned success ran the
\* operation once more than it failed transiently (N failures, N + 1
\* invocations, N waits), and the executor gives up on a transient error only
\* when the wait it drew no longer fits the two-minute budget, which takes
\* more than five transient failures.
C10_TransientsThenSuccess ==
    (rpc = "done" /\ ~rctxDone)
        => \/ /\ rresult = "ok"
              /\ rerr = "nil"
              /\ attempts = transients + 1
              /\ waits = transients
           \/ /\ rresult = "error"
              /\ Permanent(rerr)
           \/ /\ rresult = "error"
              /\ ~Permanent(rerr)
              /\ now + timer > MaxElapsedTime
              /\ transients > 5

C10_Witness ==
    /\ rpc = "done"
    /\ ~rctxDone
    /\ rfunc = "MoveFile"
    /\ rresult = "ok"
    /\ transients = 3
    /\ attempts = 4
    /\ waits = 3

\* C11: when the run's context is cancelled while the executor is between
\* attempts (drawing the next wait, or waiting), the operation is not invoked
\* again and the call returns the context's error; when it is cancelled while
\* the operation runs, that invocation fails with the cancellation error and
\* is the last one.  A call that ends with the context cancelled never
\* returns success nor the budget-exhausted failure.
C11_CancelStopsRetry ==
    /\ [](rpc = "done" /\ rctxDone
            => \/ rresult = "cancelled"
               \/ rresult = "error" /\ rerr = "canceled")
    /\ [][rctxDone /\ rpc \in {"backoff", "wait"}
            => /\ attempts' = attempts
               /\ rpc' = "done"
               /\ rresult' = "cancelled"]_vars
    /\ [][rctxDone /\ rpc = "call"
            => /\ attempts' = attempts + 1
               /\ rpc' = "done"
               /\ rresult' = "error"
               /\ rerr' = "canceled"]_vars

C11_Witness ==
    /\ rpc = "done"
    /\ rctxDone
    /\ rresult = "cancelled"
    /\ rerr = "E503"
    /\ attempts = 2
    /\ waits = 1
    /\ timer > 0

\* The retryable errors as specified: a status code among 429, 500, 502,
\* 503, 504, or a connection-level failure (reset, refused, timeout), which
\* carries no status code.
TransientAsSpecified(err) ==
    \/ err.api /\ err.code \in {429, 500, 502, 503, 504}
    \/ /\ ~err.api
       /\ \/ Contains(err.text, <<"r", "e", "s", "e", "t">>)
          \/ Contains(err.text, <<"r", "e", "f", "u", "s", "e", "d">>)
          \/ Contains(err.text, <<"t", "i", "m", "e", "o", "u", "t">>)

\* C12: MoveFile, RenameFile and MoveAndRenameFile retry an error exactly
\* when it carries one of the codes 429, 500, 502, 503, 504 or is a
\* connection-level failure: the executor backs off only after such an
\* error, and an error it returned at once as permanent is not one of them.
C12_ClassificationExact ==
    rfunc \in Movers
        => /\ rpc = "backoff" => TransientAsSpecified(RetryErrs[rerr])
           /\ (rpc = "done" /\ rresult = "error" /\ attempts = transients + 1)
                 => ~TransientAsSpecified(RetryErrs[rerr])

\* ------------------------------------------------------------------------
\* The other remote calls: listFilesInFolder fetches each page through
\* backoff.Retry with its own operation closure; FindFolderByName and
\* CreateFolder call the API once and return its error.
\* ------------------------------------------------------------------------
RemoteInit ==
    /\ MainIdle
    /\ ComponentsIdle
    /\ rpc = "call"
    /\ rfunc \in {"listFilesInFolder"} \cup FolderCalls
    /\ rctxDone = FALSE
    /\ attempts = 0
    /\ transients = 0
    /\ waits = 0
    /\ now = 0
    /\ currentInterval = InitialInterval
    /\ timer = 0
    /\ rerr = "nil"
    /\ rresult = "none"

\* srv.Files.List()...Do() of FindFolderByName, srv.Files.Create()...Do() of
\* CreateFolder: one call, its error wrapped and returned
RDirect ==
    /\ rpc = "call"
    /\ rfunc \in FolderCalls
    /\ \E e \in OpOutcomes :
        /\ attempts' = attempts + 1
        /\ rerr' = e
        /\ rresult' = IF e = "nil" THEN "ok" ELSE "error"
    /\ rpc' = "done"
    /\ UNCHANGED <<rfunc, rctxDone, transients, waits, now, currentInterval,
                   timer>>
    /\ UNCHANGED <<mvars, cvars>>

RemoteNext ==
    \/ ROperation
    \/ RNextBackOff
    \/ RTimer
    \/ RCtxDone
    \/ RCancel
    \/ RDirect

SpecRemote == RemoteInit /\ [][RemoteNext]_vars

\* C13: a page fetch of listFilesInFolder that failed with one of the codes
\* 429, 500, 502, 503, 504 or with a connection-level failure is retried: the
\* fetch returns such an error only once the two-minute budget is used up.
C13_ListRetriesTransients ==
    (/\ rfunc = "listFilesInFolder"
     /\ rpc = "done"
     /\ ~rctxDone
     /\ rresult = "error"
     /\ TransientAsSpecified(RetryErrs[rerr]))
        => now + timer > MaxElapsedTime

\* C14: a folder lookup or folder creation that failed with a transient
\* error is retried with backoff: it returns such an error only once the
\* two-minute budget is used up, never on the first failure.
C14_FolderCallsRetried ==
    (/\ rfunc \in FolderCalls
     /\ rpc = "done"
     /\ ~rctxDone
     /\ rresult = "error"
     /\ TransientAsSpecified(RetryErrs[rerr]))
        => /\ attempts > 1
           /\ now + timer > MaxElapsedTime

\* The error a call returns to its caller, by what it says: the cause, whether
\* the cause is wrapped in a message of the function, and whether that
\* message names the target of the call. The movers wrap every error of
\* backoff.Retry with the file identifier; listFilesInFolder wraps only the
\* errors it makes permanent, with no identifier, and returns the error of
\* backoff.Retry as it is; the folder calls wrap with the folder name.
ReturnedError(func, e, permanent) ==
    IF func \in Movers THEN [cause |-> e, wraps |-> TRUE, target |-> TRUE]
    ELSE IF func = "listFilesInFolder"
    THEN [cause |-> e, wraps |-> permanent, target |-> FALSE]
    ELSE [cause |-> e, wraps |-> TRUE, target |-> TRUE]

\* The most waits the budget allows: every wait the shortest of its range
RECURSIVE MaxWaits(_, _)
MaxWaits(elapsed, cur) ==
    IF BudgetExhausted(elapsed, cur - cur \div 2) THEN 0
    ELSE 1 + MaxWaits(elapsed + (cur - cur \div 2), IncrementCurrentInterval(cur))

\* The executor gave up on a transient error: the budget is used up
GaveUp ==
    /\ rpc = "done"
    /\ rresult = "error"
    /\ ~rctxDone
    /\ transients = attempts
    /\ attempts > 0

\* The executor never retries forever: the invocations are bounded by the
\* waits that fit in the budget, the time waited stays within the budget,
\* and a call that has not returned always has a step to take
RetryTerminates ==
    /\ attempts <= MaxWaits(0, InitialInterval) + 1
    /\ waits <= MaxWaits(0, InitialInterval)
    /\ now <= MaxElapsedTime
    /\ GaveUp => now + timer > MaxElapsedTime
    /\ rpc \in {"call", "backoff", "wait"}
          => ENABLED (ROperation \/ RDirect \/ RNextBackOff \/ RTimer \/ RCtxDone)

\* C32: under transient errors without end the executor stops once the
\* budget is used up, and the error it then returns wraps the cause and names
\* the target of the call.
C32_GivesUpWithWrappedError ==
    /\ RetryTerminates
    /\ GaveUp => LET r == ReturnedError(rfunc, rerr, FALSE)
                 IN r.cause = rerr /\ r.wraps /\ r.target

\* The part of C32 that holds for every retried call: termination; and for
\* MoveFile, RenameFile and MoveAndRenameFile (under SpecRetry) the wrapped
\* error with the file identifier as well
C32_Terminates == RetryTerminates

C32_MoversWrap ==
    /\ RetryTerminates
    /\ (GaveUp /\ rfunc \in Movers)
          => LET r == ReturnedError(rfunc, rerr, FALSE)
             IN r.cause = rerr /\ r.wraps /\ r.target

C32_MoversGaveUp == GaveUp /\ rfunc = "MoveFile" /\ attempts = MaxWaits(0, InitialInterval) + 1

\* ------------------------------------------------------------------------
\* ListAllFilesRecursive on folder trees.  The tree is a chain of folders
\* "b" below the folder the call starts at, a file "x" in every folder of
\* the chain and, at some levels, a sibling folder "w" holding a file "y".
\* The level of an item is the depth of the folder it is listed at.
\* ------------------------------------------------------------------------
MaxChain == MaxDepth + 2

ChainFolder(k) == 100 + k
ChainFile(k) == 200 + k
SibFolder(k) == 300 + k
SibFile(k) == 400 + k
Level(id) == id % 100
WalkRoot == ChainFolder(0)

TreeIds(d, sibs) ==
    {ChainFolder(k) : k \in 0..d} \cup {ChainFile(k) : k \in 0..d}
    \cup {SibFolder(k) : k \in sibs} \cup {SibFile(k) : k \in sibs}

Tree(d, sibs) ==
    [id \in TreeIds(d, sibs) |->
        CASE id = WalkRoot -> Item(<<"b">>, FolderMime, <<Root>>)
          [] id \in {ChainFolder(k) : k \in 1..d} ->
                Item(<<"b">>, FolderMime, <<ChainFolder(Level(id) - 1)>>)
          [] id \in {ChainFile(k) : k \in 0..d} ->
                Item(<<"x">>, TextMime, <<ChainFolder(Level(id))>>)
          [] id \in {SibFolder(k) : k \in sibs} ->
                Item(<<"w">>, FolderMime, <<ChainFolder(Level(id) - 1)>>)
          [] OTHER -> Item(<<"y">>, TextMime, <<SibFolder(Level(id))>>)]

SibChoices(d) == IF d = 0 THEN {{}} ELSE {{}, {1}, {d}, {1, d}}

WalkInit ==
    /\ MainIdle
    /\ RetryIdle
    /\ wpc = "start"
    /\ \E d \in 0..MaxChain : \E sibs \in SibChoices(d) :
         wstore = Tree(d, sibs)
    /\ wbad \in {{}} \cup {{id} : id \in FoldersOf(wstore)}
                 \cup {{SibFolder(1), ChainFolder(2)}}
    /\ wresult = <<>>
    /\ FoldersIdle
    /\ CacheIdle
    /\ BatchIdle
    /\ PromptIdle

Walk ==
    /\ wpc = "start"
    /\ wresult' = ListAllFilesRecursive(wstore, WalkRoot, wbad)
    /\ wpc' = "done"
    /\ UNCHANGED <<wstore, wbad>>
    /\ UNCHANGED <<mvars, rvars, fvars, kvars, bvars, tvars>>

WalkNext == Walk

SpecWalk == WalkInit /\ [][WalkNext]_vars

\* What the listing is expected to hold, read off the tree: the files of
\* the folders that are at depth 20 at most and whose listing, like that of
\* each of their ancestors, did not fail.
ChainDepth ==
    CHOOSE d \in 0..MaxChain :
        ChainFolder(d) \in DOMAIN wstore /\ ChainFolder(d + 1) \notin DOMAIN wstore

RECURSIVE FolderListed(_)
FolderListed(f) ==
    /\ f \notin wbad
    /\ Level(f) <= MaxDepth
    /\ f = WalkRoot \/ FolderListed(wstore[f].parents[1])

Returned == {wresult.files[k].ID : k \in 1..Len(wresult.files)}

FilesUnder(S) ==
    {id \in DOMAIN wstore \ FoldersOf(wstore) : wstore[id].parents[1] \in S}

\* C15 as stated: on a chain of nesting depth 21 the call fails with the
\* depth-exceeded error and lists no folder deeper than 20; on a chain of
\* depth 20 it succeeds and returns the files of every level.
C15_DepthExceededFails ==
    (wpc = "done" /\ wbad = {})
        => /\ ChainDepth = MaxDepth + 1
                => /\ wresult.err
                   /\ \A k \in 1..Len(wresult.listed) :
                         wresult.listed[k].depth <= MaxDepth
           /\ ChainDepth = MaxDepth
                => /\ ~wresult.err
                   /\ Returned = DOMAIN wstore \ FoldersOf(wstore)

\* C15, amended: when no listing fails, the call never lists a folder deeper
\* than 20 and succeeds; the depth-exceeded error of a folder at depth 21 is
\* absorbed by the loop of its parent, so the result holds exactly the files
\* of the levels 0 to 20, once each: every file when the chain has depth 20
\* or less, all but those of the deeper levels when it has depth 21.
C15_DepthCeiling ==
    (wpc = "done" /\ wbad = {})
        => /\ ~wresult.err
           /\ \A k \in 1..Len(wresult.listed) :
                 wresult.listed[k].depth <= MaxDepth
           /\ Returned = {id \in DOMAIN wstore \ FoldersOf(wstore) :
                             Level(id) <= MaxDepth}
           /\ Len(wresult.files) = Cardinality(Returned)
           /\ ChainDepth <= MaxDepth
                => Returned = DOMAIN wstore \ FoldersOf(wstore)

C15_Witness ==
    /\ wpc = "done"
    /\ wbad = {}
    /\ ChainDepth = MaxDepth + 1
    /\ SibFolder(MaxDepth + 1) \in DOMAIN wstore
    /\ ~wresult.err
    /\ ChainFile(MaxDepth) \in Returned
    /\ ChainFile(MaxDepth + 1) \notin Returned
    /\ SibFile(MaxDepth + 1) \notin Returned

\* C16: when the listing of the folder the call starts at succeeds, the
\* call succeeds whatever subfolder listing fails; the result holds no item
\* of a folder whose listing failed nor of the folders below it, and holds
\* every file of every other folder (siblings and ancestors) within the
\* depth ceiling.
C16_FailedSubtreeSkipped ==
    (wpc = "done" /\ WalkRoot \notin wbad)
        => /\ ~wresult.err
           /\ Returned \cap FilesUnder(wbad) = {}
           /\ Returned = FilesUnder({f \in FoldersOf(wstore) : FolderListed(f)})

C16_Witness ==
    /\ wpc = "done"
    /\ wbad = {ChainFolder(1)}
    /\ ChainDepth = 2
    /\ ~wresult.err
    /\ Returned = {ChainFile(0), SibFile(1)}

\* ------------------------------------------------------------------------
\* FindOrCreateNestedFolder called twice on the same path and parent.  The
\* stores: empty; the folder "b"; "b" and "s" inside it; two folders "b"; a
\* file named "b".
\* ------------------------------------------------------------------------
FolderStores ==
    {<<>>,
     (3 :> Item(<<"b">>, FolderMime, <<Root>>)),
     (3 :> Item(<<"b">>, FolderMime, <<Root>>))
        @@ (4 :> Item(<<"s">>, FolderMime, <<3>>)),
     (3 :> Item(<<"b">>, FolderMime, <<Root>>))
        @@ (5 :> Item(<<"b">>, FolderMime, <<Root>>)),
     (1 :> Item(<<"b">>, TextMime, <<Root>>))}

FolderPaths ==
    {<<"b">>, <<"b", "/", "s">>, <<"/", "b">>, <<" ", "b", " ">>, <<" ">>,
     <<"b", "/", "b">>, <<"b", "/", "/", "s">>, <<"s", "/", "b", "/", "s">>}

FoldersInit ==
    /\ MainIdle
    /\ RetryIdle
    /\ WalkIdle
    /\ CacheIdle
    /\ BatchIdle
    /\ PromptIdle
    /\ fpc = "start"
    /\ fstore \in FolderStores
    /\ fpath \in FolderPaths
    /\ fparent \in {Root} \cup FoldersOf(fstore)
    /\ ffirst = <<>>
    /\ fsecond = <<>>

FirstCall ==
    /\ fpc = "start"
    /\ \E failCall \in 0..MaxFailCall :
         ffirst' = FindOrCreateNestedFolder(fstore, FirstNewId, fpath, fparent,
                                            failCall)
    /\ fpc' = "first"
    /\ UNCHANGED <<fstore, fpath, fparent, fsecond>>
    /\ UNCHANGED <<mvars, rvars, wvars, kvars, bvars, tvars>>

SecondCall ==
    /\ fpc = "first"
    /\ \E failCall \in 0..MaxFailCall :
         fsecond' = FindOrCreateNestedFolder(ffirst.st, ffirst.nid, fpath,
                                             fparent, failCall)
    /\ fpc' = "second"
    /\ UNCHANGED <<fstore, fpath, fparent, ffirst>>
    /\ UNCHANGED <<mvars, rvars, wvars, kvars, bvars, tvars>>

FoldersNext ==
    \/ FirstCall
    \/ SecondCall

SpecFolders == FoldersInit /\ [][FoldersNext]_vars

\* The segments of a path: its parts between "/", trimmed, the blank ones
\* left out
Segments(path) ==
    LET parts == Split(path, "/")
    IN SelectSeq([k \in 1..Len(parts) |-> TrimSpace(parts[k])],
                 LAMBDA part : part # <<>>)

FoldersNamed(st, name, parent) ==
    {id \in DOMAIN st : /\ st[id].name = name
                        /\ st[id].mime = FolderMime
                        /\ InSeq(parent, st[id].parents)}

\* Along the path, every segment is a folder under the one before it, and
\* is there once unless the store held it several times before the calls
RECURSIVE SegmentsOnce(_, _, _, _)
SegmentsOnce(before, after, segs, parent) ==
    \/ segs = <<>>
    \/ LET was == Cardinality(FoldersNamed(before, Head(segs), parent))
           is == FoldersNamed(after, Head(segs), parent)
       IN /\ Cardinality(is) = IF was = 0 THEN 1 ELSE was
          /\ \E id \in is : SegmentsOnce(before, after, Tail(segs), id)

NumGoroutines == 2
MaxCacheOps == 3

Goroutines == 1..NumGoroutines

CacheFiles ==
    {[Name |-> <<"x">>, MimeType |-> TextMime],
     [Name |-> <<"y">>, MimeType |-> TextMime]}

CacheValues == {Sug(<<"w">>, <<>>), Sug(<<"v">>, <<"z">>)}

Torn == [Nil |-> FALSE, SuggestedFolder |-> <<"|">>, SuggestedName |-> <<"|">>]

GIdle ==
    [pc |-> "idle", file |-> [Name |-> <<>>, MimeType |-> <<>>], key |-> <<>>,
     val |-> NilSuggestion, got |-> NilSuggestion]

\* A slip: Get reads the map without holding the read lock
RLockOkAlways(mu) == TRUE

\* sync.RWMutex: RLock is granted while no writer holds the lock, Lock
\* while nobody holds it
RLockOk(mu) == ~mu.writer

LockOk(mu) == ~mu.writer /\ mu.readers = 0

Writing(g) == \E h \in Goroutines \ {g} : kg[h].pc = "write"

CacheInit ==
    /\ MainIdle
    /\ RetryIdle
    /\ WalkIdle
    /\ FoldersIdle
    /\ BatchIdle
    /\ PromptIdle
    /\ kitems = <<>>
    /\ kmu = [writer |-> FALSE, readers |-> 0]
    /\ kg = [g \in Goroutines |-> GIdle]
    /\ khist = <<>>
    /\ kcalled = {}
    /\ kops = 0

KCallGet(g) ==
    /\ kg[g].pc = "idle"
    /\ kops < MaxCacheOps
    /\ \E f \in CacheFiles :
         kg' = [kg EXCEPT ![g] = [pc |-> "rlock", file |-> f,
                                  key |-> CacheKey(f.Name, f.MimeType),
                                  val |-> NilSuggestion, got |-> NilSuggestion]]
    /\ kops' = kops + 1
    /\ UNCHANGED <<kitems, kmu, khist, kcalled>>

KCallSet(g) ==
    /\ kg[g].pc = "idle"
    /\ kops < MaxCacheOps
    /\ \E f \in CacheFiles : \E v \in CacheValues :
         /\ kg' = [kg EXCEPT ![g] = [pc |-> "lock", file |-> f,
                                     key |-> CacheKey(f.Name, f.MimeType),
                                     val |-> v, got |-> NilSuggestion]]
         /\ kcalled' = kcalled \cup {[key |-> CacheKey(f.Name, f.MimeType),
                                      val |-> v]}
    /\ kops' = kops + 1
    /\ UNCHANGED <<kitems, kmu, khist>>

KRLock(g) ==
    /\ kg[g].pc = "rlock"
    /\ RLockOk(kmu)
    /\ kmu' = [kmu EXCEPT !.readers = @ + 1]
    /\ kg' = [kg EXCEPT ![g].pc = "read"]
    /\ UNCHANGED <<kitems, khist, kcalled, kops>>

KRead(g) ==
    /\ kg[g].pc = "read"
    /\ \E v \in IF Writing(g) THEN CacheValues \cup {NilSuggestion, Torn}
                ELSE {CacheGet(kitems, kg[g].key)} :
         kg' = [kg EXCEPT ![g].pc = "runlock", ![g].got = v]
    /\ UNCHANGED <<kitems, kmu, khist, kcalled, kops>>

KRUnlock(g) ==
    /\ kg[g].pc = "runlock"
    /\ kmu' = [kmu EXCEPT !.readers = @ - 1]
    /\ kg' = [kg EXCEPT ![g].pc = "idle"]
    /\ UNCHANGED <<kitems, khist, kcalled, kops>>

KLock(g) ==
    /\ kg[g].pc = "lock"
    /\ LockOk(kmu)
    /\ kmu' = [kmu EXCEPT !.writer = TRUE]
    /\ kg' = [kg EXCEPT ![g].pc = "write"]
    /\ UNCHANGED <<kitems, khist, kcalled, kops>>

KWrite(g) ==
    /\ kg[g].pc = "write"
    /\ \E v \in IF Writing(g) THEN {kg[g].val, Torn} ELSE {kg[g].val} :
         kitems' = CacheSet(kitems, kg[g].key, v)
    /\ khist' = Append(khist, [key |-> kg[g].key, val |-> kg[g].val])
    /\ kg' = [kg EXCEPT ![g].pc = "unlock"]
    /\ UNCHANGED <<kmu, kcalled, kops>>

KUnlock(g) ==
    /\ kg[g].pc = "unlock"
    /\ kmu' = [kmu EXCEPT !.writer = FALSE]
    /\ kg' = [kg EXCEPT ![g].pc = "idle"]
    /\ UNCHANGED <<kitems, khist, kcalled, kops>>

CacheNext ==
    /\ \E g \in Goroutines :
         \/ KCallGet(g)
         \/ KCallSet(g)
         \/ KRLock(g)
         \/ KRead(g)
         \/ KRUnlock(g)
         \/ KLock(g)
         \/ KWrite(g)
         \/ KUnlock(g)
    /\ UNCHANGED <<mvars, rvars, wvars, fvars, bvars, tvars>>

SpecCache == CacheInit /\ [][CacheNext]_vars

CacheKeys == {CacheKey(f.Name, f.MimeType) : f \in CacheFiles}

\* The suggestion of the most recent write on a key, or absent
LastSet(hist, key) ==
    LET ks == {k \in 1..Len(hist) : hist[k].key = key}
    IN IF ks = {} THEN NilSuggestion
       ELSE hist[CHOOSE k \in ks : \A o \in ks : o <= k].val

\* C18: after any sequence of sets, the cache holds for every key the
\* suggestion of the most recent set on that key, or nothing if the key was
\* never set, and a Get reads exactly that; a set on one key leaves the
\* value of every other key as it was; the key of a file is its name, "|"
\* and its content type.
C18_LastWriteWins ==
    /\ [](\A key \in CacheKeys : CacheGet(kitems, key) = LastSet(khist, key))
    /\ [](DOMAIN kitems \subseteq CacheKeys)
    /\ [](\A g \in DOMAIN kg :
            kg[g].pc # "idle"
               => kg[g].key = kg[g].file.Name \o <<"|">> \o kg[g].file.MimeType)
    /\ [][\A g \in DOMAIN kg :
            (kg[g].pc = "read" /\ kg'[g].pc = "runlock")
               => kg'[g].got = LastSet(khist, kg[g].key)]_vars
    /\ [][\A g \in DOMAIN kg :
            (kg[g].pc = "write" /\ kg'[g].pc = "unlock")
               => /\ CacheGet(kitems', kg[g].key) = kg[g].val
                  /\ \A key \in CacheKeys \ {kg[g].key} :
                        CacheGet(kitems', key) = CacheGet(kitems, key)]_vars

C18_Witness ==
    /\ Len(khist) = 3
    /\ khist[1].key = khist[3].key
    /\ khist[2].key # khist[1].key
    /\ khist[1].val # khist[3].val
    /\ CacheGet(kitems, khist[3].key) = khist[3].val
    /\ CacheGet(kitems, khist[2].key) = khist[2].val

\* C19: in every interleaving of Get and Set calls of several goroutines,
\* the map is never read or written while a goroutine writes it, and the
\* value a Get has read is absent or a suggestion that a Set, called before
\* the Get returns, was given for that key.
C19_ConcurrentSafe ==
    /\ \A g \in DOMAIN kg :
         kg[g].pc \in {"write", "unlock"}
            => \A h \in DOMAIN kg \ {g} :
                  kg[h].pc \notin {"read", "runlock", "write", "unlock"}
    /\ \A g \in DOMAIN kg :
         kg[g].pc = "runlock"
            => \/ kg[g].got = NilSuggestion
               \/ [key |-> kg[g].key, val |-> kg[g].got] \in kcalled
    /\ kmu.writer => kmu.readers = 0

C19_Witness ==
    /\ kmu.readers = 2
    /\ \E g \in DOMAIN kg : \E h \in DOMAIN kg \ {g} :
         /\ kg[g].pc = "runlock"
         /\ kg[h].pc = "read"
         /\ kg[g].key = kg[h].key
         /\ kg[g].got # NilSuggestion

\* ------------------------------------------------------------------------
\* The batch of moves: the backup loop of runOrganize (auth.go:212-227) and
\* MoveFilesToFolder, each one MoveFile call per item. The retries inside a
\* MoveFile call are the subject of SpecRetry; here a call is its outcome.
\* ------------------------------------------------------------------------
MaxBatch == 3

BatchFuncs == {"backupLoop", "MoveFilesToFolder"}

\* Two files at the root, one in folder 3, and the folders 3 and 5
BatchStore == StoreOf({1, 2, 3, 4, 5})

BatchItems == {1, 2, 4}

BatchDests == {3, 5}

\* The item lists: no item twice
BatchInputs ==
    {q \in UNION {[1..n -> BatchItems] : n \in 0..MaxBatch} :
        \A a \in DOMAIN q : \A b \in DOMAIN q : a # b => q[a] # q[b]}

\* The FileInfo of an item; a listing may carry no parents for it
Snapshot(st, id, bare) ==
    IF bare THEN [Info(st, id) EXCEPT !.Parents = <<>>] ELSE Info(st, id)

\* A call made with a cancelled context fails
BatchOk == IF bctxDone THEN {FALSE} ELSE {TRUE, FALSE}

BatchInit ==
    /\ MainIdle
    /\ RetryIdle
    /\ WalkIdle
    /\ FoldersIdle
    /\ CacheIdle
    /\ PromptIdle
    /\ bpc = "loop"
    /\ bfunc \in BatchFuncs
    /\ bstore = BatchStore
    /\ bfiles \in {[k \in DOMAIN q |-> Snapshot(BatchStore, q[k], bare /\ q[k] = 1)] :
                     q \in BatchInputs, bare \in BOOLEAN}
    /\ bdest \in BatchDests
    /\ bi = 1
    /\ bmoved = 0
    /\ berrors = <<>>
    /\ bcalls = <<>>
    /\ bctxDone = FALSE

\* drive.MoveFile(ctx, srv, f.ID, dest, oldParent) of the item at bi
BatchMoveFile(ok) ==
    LET f == bfiles[bi]
        oldParent == OldParent(f, Root)
    IN /\ bcalls' = Append(bcalls,
              MoveCall("move", f.ID, f.Name, bdest, oldParent, ok, "batch"))
       /\ bstore' = IF ok THEN UpdateParents(bstore, f.ID, bdest, oldParent)
                    ELSE bstore

\* One iteration of the backup loop of runOrganize
BackupLoopStep ==
    /\ bpc = "loop"
    /\ bfunc = "backupLoop"
    /\ IF bi > Len(bfiles)
       THEN /\ bpc' = "done"
            /\ UNCHANGED <<bstore, bcalls, bi>>
       ELSE IF bctxDone
       THEN /\ bpc' = "cancelled"
            /\ UNCHANGED <<bstore, bcalls, bi>>
       ELSE \E ok \in BatchOk :
               /\ BatchMoveFile(ok)
               /\ bi' = bi + 1
               /\ bpc' = "loop"
    /\ UNCHANGED <<bfunc, bfiles, bdest, bmoved, berrors, bctxDone>>
    /\ UNCHANGED <<mvars, rvars, wvars, fvars, kvars, tvars>>

\* A slip: the first failure ends the batch
MoveFilesToFolderStopsAtError ==
    /\ bpc = "loop"
    /\ bfunc = "MoveFilesToFolder"
    /\ IF bi > Len(bfiles)
       THEN /\ bpc' = "done"
            /\ UNCHANGED <<bstore, bcalls, bi, bmoved, berrors>>
       ELSE \E ok \in BatchOk :
               /\ BatchMoveFile(ok)
               /\ bi' = bi + 1
               /\ IF ok
                  THEN /\ bmoved' = bmoved + 1
                       /\ bpc' = "loop"
                       /\ UNCHANGED berrors
                  ELSE /\ berrors' = Append(berrors, bfiles[bi].ID)
                       /\ bpc' = "done"
                       /\ UNCHANGED bmoved
    /\ UNCHANGED <<bfunc, bfiles, bdest, bctxDone>>
    /\ UNCHANGED <<mvars, rvars, wvars, fvars, kvars, tvars>>

\* One iteration of MoveFilesToFolder, or its return
MoveFilesToFolderStep ==
    /\ bpc = "loop"
    /\ bfunc = "MoveFilesToFolder"
    /\ IF bi > Len(bfiles)
       THEN /\ bpc' = "done"
            /\ UNCHANGED <<bstore, bcalls, bi, bmoved, berrors>>
       ELSE \E ok \in BatchOk :
               /\ BatchMoveFile(ok)
               /\ bi' = bi + 1
               /\ bpc' = "loop"
               /\ IF ok
                  THEN /\ bmoved' = bmoved + 1
                       /\ UNCHANGED berrors
                  ELSE /\ berrors' = Append(berrors, bfiles[bi].ID)
                       /\ UNCHANGED bmoved
    /\ UNCHANGED <<bfunc, bfiles, bdest, bctxDone>>
    /\ UNCHANGED <<mvars, rvars, wvars, fvars, kvars, tvars>>

\* The context is cancelled while the batch runs
BatchCancel ==
    /\ bpc = "loop"
    /\ ~bctxDone
    /\ bctxDone' = TRUE
    /\ UNCHANGED <<bpc, bfunc, bstore, bfiles, bdest, bi, bmoved, berrors, bcalls>>
    /\ UNCHANGED <<mvars, rvars, wvars, fvars, kvars, tvars>>

BatchNext ==
    \/ BackupLoopStep
    \/ MoveFilesToFolderStep
    \/ BatchCancel

SpecBatch == BatchInit /\ [][BatchNext]_vars

\* The calls of the batch that succeeded, and the items of those that failed
Succeeded == {k \in 1..Len(bcalls) : bcalls[k].ok}

RECURSIVE FailedItems(_)
FailedItems(cs) ==
    IF cs = <<>> THEN <<>>
    ELSE IF Head(cs).ok THEN FailedItems(Tail(cs))
    ELSE <<Head(cs).id>> \o FailedItems(Tail(cs))

C22_BackupLoopReached ==
    /\ bpc = "done"
    /\ bfunc = "backupLoop"
    /\ ~bctxDone
    /\ Len(bfiles) = 3
    /\ ~bcalls[1].ok
    /\ bcalls[3].ok

\* ------------------------------------------------------------------------
\* The requests with supplementary text: buildContentPrompt and
\* buildDescriptionPrompt place the payload between two "---" lines. A Go
\* string is a sequence of bytes and len() counts bytes.
\* ------------------------------------------------------------------------
ContentLimit == 2000

\* How far beyond the limit the payloads explored go
MaxOver == 3

\* "... [truncado]"
TruncationMarker ==
    <<".", ".", ".", " ", "[", "t", "r", "u", "n", "c", "a", "d", "o", "]">>

PromptFuncs == {"buildContentPrompt", "buildDescriptionPrompt"}

\* The payloads: short ones and the lengths around the limit, filled with
\* "a" with a "b" at every m-th place
PayloadLengths == 0..3 \cup (ContentLimit - 2..ContentLimit + MaxOver)

Payload(n, m) == [k \in 1..n |-> IF k % m = 0 THEN "b" ELSE "a"]

Payloads == {Payload(n, m) : n \in PayloadLengths, m \in 1..6}

\* buildContentPrompt: if len(content) > 2000 { content = content[:2000] +
\* "... [truncado]" }
ContentBlock(content) ==
    IF Len(content) > ContentLimit
    THEN SubSeq(content, 1, ContentLimit) \o TruncationMarker
    ELSE content

\* buildDescriptionPrompt: the description as it is
DescriptionBlock(userDescription) == userDescription

PromptInit ==
    /\ MainIdle
    /\ RetryIdle
    /\ WalkIdle
    /\ FoldersIdle
    /\ CacheIdle
    /\ BatchIdle
    /\ tpc = "build"
    /\ tfunc \in PromptFuncs
    /\ tpayload \in Payloads
    /\ tblock = <<>>

BuildContentPrompt ==
    /\ tpc = "build"
    /\ tfunc = "buildContentPrompt"
    /\ tblock' = ContentBlock(tpayload)
    /\ tpc' = "built"
    /\ UNCHANGED <<tfunc, tpayload>>
    /\ UNCHANGED <<mvars, rvars, wvars, fvars, kvars, bvars>>

BuildDescriptionPrompt ==
    /\ tpc = "build"
    /\ tfunc = "buildDescriptionPrompt"
    /\ tblock' = DescriptionBlock(tpayload)
    /\ tpc' = "built"
    /\ UNCHANGED <<tfunc, tpayload>>
    /\ UNCHANGED <<mvars, rvars, wvars, fvars, kvars, bvars>>

PromptNext ==
    \/ BuildContentPrompt
    \/ BuildDescriptionPrompt

SpecPrompt == PromptInit /\ [][PromptNext]_vars

\* The block holds the payload whole when it is within the limit, and else
\* its first ContentLimit bytes followed by the marker
Bounded(block, payload) ==
    IF Len(payload) <= ContentLimit
    THEN block = payload
    ELSE /\ block = SubSeq(payload, 1, ContentLimit) \o TruncationMarker
         /\ Len(block) = ContentLimit + Len(TruncationMarker)

\* C33: for both builders the text block of the request holds at most the
\* first 2000 characters of the payload, plus the truncation marker,
\* whatever the length of the payload.
C33_PayloadTruncated == tpc = "built" => Bounded(tblock, tpayload)

\* The part of C33 that holds: buildContentPrompt bounds its payload
C33_ContentTruncated ==
    (tpc = "built" /\ tfunc = "buildContentPrompt") => Bounded(tblock, tpayload)

C33_ContentReached ==
    /\ tpc = "built"
    /\ tfunc = "buildContentPrompt"
    /\ Len(tpayload) = ContentLimit + MaxOver
    /\ Len(tblock) = ContentLimit + Len(TruncationMarker)


\* ------------------------------------------------------------------------
\* ListAllFilesRecursive on graphs that are not trees: three folders and two
\* files, a folder or a file with two parents, folders that are descendants
\* of themselves. The call starts at GraphFolder(0).
\* ------------------------------------------------------------------------
GraphFolder(k) == 500 + k
GraphFile(k) == 600 + k
GraphRoot == GraphFolder(0)

\* The parents each item can have
GraphParents ==
    [root |-> {<<Root>>, <<Root, GraphFolder(2)>>},
     one |-> {<<GraphFolder(0)>>, <<GraphFolder(0), GraphFolder(2)>>,
              <<GraphFolder(1)>>},
     two |-> {<<GraphFolder(1)>>, <<GraphFolder(0), GraphFolder(1)>>,
              <<GraphFolder(0)>>},
     x |-> {<<GraphFolder(0)>>, <<GraphFolder(1)>>,
            <<GraphFolder(1), GraphFolder(2)>>,
            <<GraphFolder(0), GraphFolder(2)>>},
     y |-> {<<GraphFolder(2)>>}]

Graph(p0, p1, p2, px, py) ==
    (GraphFolder(0) :> Item(<<"g">>, FolderMime, p0))
    @@ (GraphFolder(1) :> Item(<<"b">>, FolderMime, p1))
    @@ (GraphFolder(2) :> Item(<<"w">>, FolderMime, p2))
    @@ (GraphFile(1) :> Item(<<"x">>, TextMime, px))
    @@ (GraphFile(2) :> Item(<<"y">>, TextMime, py))

\* The subfolders of a set of folders, and the folders below a folder
SubFolders(st, S) ==
    {c \in FoldersOf(st) : \E p \in S : InSeq(p, st[c].parents)}

RECURSIVE Below(_, _)
Below(st, S) ==
    IF SubFolders(st, S) \subseteq S THEN S
    ELSE Below(st, S \cup SubFolders(st, S))

Descendants(st, f) == Below(st, SubFolders(st, {f}))

\* The cycles explored are simple: a folder that is a descendant of itself
\* has one subfolder, so that the listings made grow with the depth and not
\* with its power
SimpleCycles(st) ==
    \A f \in FoldersOf(st) :
        f \in Descendants(st, f) => Cardinality(SubFolders(st, {f})) = 1

Graphs ==
    {g \in {Graph(p0, p1, p2, px, py) :
               p0 \in GraphParents.root, p1 \in GraphParents.one,
               p2 \in GraphParents.two, px \in GraphParents.x,
               py \in GraphParents.y} :
        SimpleCycles(g)}

GraphInit ==
    /\ MainIdle
    /\ RetryIdle
    /\ FoldersIdle
    /\ CacheIdle
    /\ BatchIdle
    /\ PromptIdle
    /\ wpc = "start"
    /\ wstore \in Graphs
    /\ wbad \in {{}} \cup {{id} : id \in {GraphFolder(1), GraphFolder(2)}}
    /\ wresult = <<>>

GraphWalk ==
    /\ wpc = "start"
    /\ wresult' = ListAllFilesRecursive(wstore, GraphRoot, wbad)
    /\ wpc' = "done"
    /\ UNCHANGED <<wstore, wbad>>
    /\ UNCHANGED <<mvars, rvars, fvars, kvars, bvars, tvars>>

GraphNext == GraphWalk

SpecGraph == GraphInit /\ [][GraphNext]_vars

\* A folder the call reaches is a descendant of itself
Reached == {GraphRoot} \cup Descendants(wstore, GraphRoot)

CycleReached == \E f \in Reached : f \in Descendants(wstore, f)

\* An item with two parents among the folders the call reaches
SharedReached ==
    \E id \in DOMAIN wstore :
        /\ Len(wstore[id].parents) = 2
        /\ \A k \in 1..2 : wstore[id].parents[k] \in Reached

\* C34: on every graph, with items of two parents and with folder cycles,
\* the call makes a bounded number of listings (on the simple cycles here,
\* at most one per folder and depth), lists no folder deeper than depth 20,
\* every listing it makes is one level below a listing made before it, and
\* on a cycle it goes down to depth 20 and stops there.
C34_GraphWalkBounded ==
    wpc = "done" =>
        /\ Len(wresult.listed)
              <= Cardinality(FoldersOf(wstore)) * (MaxDepth + 1)
        /\ wresult.listed[1] = [id |-> GraphRoot, depth |-> 0]
        /\ \A k \in 1..Len(wresult.listed) :
              /\ wresult.listed[k].depth <= MaxDepth
              /\ k > 1 =>
                   \E j \in 1..k - 1 :
                      /\ wresult.listed[j].depth + 1 = wresult.listed[k].depth
                      /\ InSeq(wresult.listed[j].id,
                               wstore[wresult.listed[k].id].parents)
        /\ (CycleReached /\ wbad = {}) =>
              \E k \in 1..Len(wresult.listed) :
                  wresult.listed[k].depth = MaxDepth

C34_Witness ==
    /\ wpc = "done"
    /\ CycleReached
    /\ SharedReached
    /\ wbad = {}
    /\ ~wresult.err
    /\ \E k \in 1..Len(wresult.listed) :
          /\ wresult.listed[k].depth = MaxDepth
          /\ wresult.listed[k].id = GraphRoot



\* C37: the result of ListAllFilesRecursive holds every item at most once,
\* also when an item has several parents among the folders listed.
C37_ListedOnce ==
    wpc = "done" =>
        \A j, k \in 1..Len(wresult.files) :
            wresult.files[j].ID = wresult.files[k].ID => j = k



\* The item is in the backup folder or in a folder below it
InsideBackup(id) ==
    \E k \in 1..Len(store[id].parents) :
        store[id].parents[k]
            \in {backupFolder.ID} \cup Descendants(store, backupFolder.ID)

\* C38: when the staging step of a run that is not a dry run ends, every
\* item of the work queue is inside the backup folder in the remote store,
\* also when backup moves failed.
C38_QueueInsideBackup ==
    (pc = "loop" /\ i = 1 /\ skipped = 0 /\ ~dryRun)
        => \A k \in 1..Len(filesToOrganize) :
              InsideBackup(filesToOrganize[k].ID)

\* C38, the moves that succeed: an item of the queue is outside the backup
\* folder when the staging step ends only if its backup move failed.
C38_MovedInsideBackup ==
    (pc = "loop" /\ i = 1 /\ skipped = 0 /\ ~dryRun)
        => \A k \in 1..Len(filesToOrganize) :
              \/ InsideBackup(filesToOrganize[k].ID)
              \/ \E c \in 1..Len(calls) :
                    /\ calls[c].stage = "backup"
                    /\ calls[c].op = "move"
                    /\ calls[c].id = filesToOrganize[k].ID
                    /\ ~calls[c].ok

====
